---- MODULE Spec2Model ----
(***************************************************************************)
(* Order-book reconstruction of BullBook's React hook useOrderBook         *)
(* (useOrderBookAuto carries the same applySnapshot / applyDelta /         *)
(* handleMessage code, with sourceInfo.depth in the place of depth).       *)
(*                                                                         *)
(* Strings that the code parses (prices, sizes) are sequences of one-      *)
(* character strings, so that parseFloat is a computation and two          *)
(* spellings of one number ("100", "100.0") are different Map keys.        *)
(* JSON objects are functions whose DOMAIN is the set of keys present.     *)
(***************************************************************************)
EXTENDS Integers, Sequences, FiniteSets, TLC

(***************************************************************************)
(* Bounds of the model.                                                    *)
(***************************************************************************)
\* longest bid / ask list a modelled message carries
MaxLen == 3
\* the depth argument of the hook (50, 200 or 1000 in the application)
Depth == 2
\* largest update id a modelled message carries
MaxU == 2
\* how many times the upstream connection of the proxy may close
MaxCloses == 1

(***************************************************************************)
(* JavaScript values.                                                      *)
(***************************************************************************)
\* null (the initial timestamp / updateId / lastUpdate of a book)
Null == -1

\* Date.now(): every reading of the wall clock is abstracted to one value;
\* nothing below compares two readings.
DateNow == 1000

Min(x, y) == IF x <= y THEN x ELSE y

Has(obj, key) == key \in DOMAIN obj

\* obj[key] || dflt for a numeric field: undefined, null and 0 are falsy
NumOr(obj, key, dflt) ==
    IF Has(obj, key) /\ obj[key] # 0 /\ obj[key] # Null THEN obj[key] ELSE dflt

\* obj[key] || [] for an array field: every array, the empty one too, is truthy
ListOr(obj, key) == IF Has(obj, key) THEN obj[key] ELSE <<>>

\* obj[key] && obj[key].length > 0
NonEmptyList(obj, key) == Has(obj, key) /\ Len(obj[key]) > 0

DigitVal ==
    [c \in {"0", "1", "2", "3", "4", "5", "6", "7", "8", "9"} |->
        CASE c = "0" -> 0 [] c = "1" -> 1 [] c = "2" -> 2 [] c = "3" -> 3
          [] c = "4" -> 4 [] c = "5" -> 5 [] c = "6" -> 6 [] c = "7" -> 7
          [] c = "8" -> 8 [] c = "9" -> 9]

RECURSIVE DigitsValue(_)
DigitsValue(ds) ==
    IF ds = <<>> THEN 0
    ELSE DigitsValue(SubSeq(ds, 1, Len(ds) - 1)) * 10 + DigitVal[ds[Len(ds)]]

DotPos(s) ==
    IF \E i \in 1..Len(s) : s[i] = "."
    THEN CHOOSE i \in 1..Len(s) : s[i] = "." /\ \A j \in 1..(i - 1) : s[j] # "."
    ELSE Len(s) + 1

\* parseFloat of a plain decimal string with at most one fractional digit;
\* the result is exact and counted in tenths ("100" and "100.0" give 1000)
ParseDecimal(s) ==
    LET d == DotPos(s)
        ip == SubSeq(s, 1, d - 1)
        fp == SubSeq(s, d + 1, Len(s))
    IN DigitsValue(ip) * 10 + (IF fp = <<>> THEN 0 ELSE DigitVal[fp[1]])

\* the price and size strings of the modelled feed
P99 == <<"9", "9">>
P100 == <<"1", "0", "0">>
P100d0 == <<"1", "0", "0", ".", "0">>
S0 == <<"0">>
S2 == <<"2">>
S5 == <<"5">>

DecimalStrings == { P99, P100, P100d0, S0, S2, S5 }

\* ParseDecimal of every string of the feed, computed once
Parsed == [s \in DecimalStrings |-> ParseDecimal(s)]

\* parseFloat(s)
ParseFloat(s) == Parsed[s]

(***************************************************************************)
(* Map (insertion ordered, keyed by the price string), Array.sort (stable) *)
(* and Array.slice, as applyDelta uses them.  A Map is the sequence of its *)
(* entries <<key, value>> in insertion order.                              *)
(***************************************************************************)
MapHas(m, k) == \E i \in 1..Len(m) : m[i][1] = k

\* variant: the new size is added to the size already at the key (string +)
MapSetAdding(m, k, v) ==
    IF MapHas(m, k)
    THEN [i \in 1..Len(m) |-> IF m[i][1] = k THEN <<k, m[i][2] \o v>> ELSE m[i]]
    ELSE Append(m, <<k, v>>)

\* Map.prototype.set: overwrite in place, or append a new key
MapSet(m, k, v) ==
    IF MapHas(m, k)
    THEN [i \in 1..Len(m) |-> IF m[i][1] = k THEN <<k, v>> ELSE m[i]]
    ELSE Append(m, <<k, v>>)

\* Map.prototype.delete
MapDelete(m, k) == SelectSeq(m, LAMBDA e : e[1] # k)

\* new Map(levels.map(([price, size]) => [price, size]))
RECURSIVE MapFromLevels(_)
MapFromLevels(levels) ==
    IF levels = <<>> THEN <<>>
    ELSE LET init == MapFromLevels(SubSeq(levels, 1, Len(levels) - 1))
             e == levels[Len(levels)]
         IN MapSet(init, e[1], e[2])

\* data.b.forEach(([price, size]) => { if (parseFloat(size) === 0) delete else set })
RECURSIVE ApplyEntries(_, _)
ApplyEntries(m, entries) ==
    IF entries = <<>> THEN m
    ELSE LET e == Head(entries)
             m1 == IF ParseFloat(e[2]) = 0
                   THEN MapDelete(m, e[1])
                   ELSE MapSet(m, e[1], e[2])
         IN ApplyEntries(m1, Tail(entries))

\* (a, b) => parseFloat(b[0]) - parseFloat(a[0])   (bids, descending)
\* (a, b) => parseFloat(a[0]) - parseFloat(b[0])   (asks, ascending)
Compare(side, a, b) ==
    IF side = "bids" THEN ParseFloat(b[1]) - ParseFloat(a[1])
    ELSE ParseFloat(a[1]) - ParseFloat(b[1])

\* x placed behind every element that does not sort after it (stable)
RECURSIVE InsertSorted(_, _, _)
InsertSorted(side, x, s) ==
    IF s = <<>> THEN <<x>>
    ELSE IF Compare(side, Head(s), x) > 0 THEN <<x>> \o s
    ELSE <<Head(s)>> \o InsertSorted(side, x, Tail(s))

\* Array.prototype.sort with the side's comparator
RECURSIVE SortLevels(_, _)
SortLevels(side, s) ==
    IF s = <<>> THEN <<>>
    ELSE InsertSorted(side, s[Len(s)], SortLevels(side, SubSeq(s, 1, Len(s) - 1)))

\* the variant of Slice that keeps the last n entries
SliceLast(s, n) == SubSeq(s, Len(s) - Min(n, Len(s)) + 1, Len(s))

\* Array.prototype.slice(0, n)
Slice(s, n) == SubSeq(s, 1, Min(n, Len(s)))


\* String.prototype.includes; strings that are searched are sequences of tokens
Includes(hay, needle) ==
    \E i \in 0..(Len(hay) - Len(needle)) : SubSeq(hay, i + 1, i + Len(needle)) = needle

\* `orderbook.${depth}.`
TopicPrefix(depth) == <<"orderbook", ".", ToString(depth), ".">>

\* the channel string orderbook.<depth>.<symbol>
Topic(depth, symbol) == TopicPrefix(depth) \o symbol

(***************************************************************************)
(* The hook's state.                                                       *)
(***************************************************************************)
VARIABLES
    symbol,      \* the hook's symbol argument
    orderBook,   \* useState: bids, asks, timestamp, updateId, lastUpdate
    isLoading,   \* useState
    paused,      \* useState
    feedSide,    \* the side on which the modelled feed carries full lists
    skipped      \* a message of the channel was dropped since the last snapshot

hookVars == <<symbol, orderBook, isLoading, paused, feedSide, skipped>>

(***************************************************************************)
(* The proxy's state (class BybitProxy), the exchange's end of the         *)
(* upstream connection, and one observed downstream client, whose page     *)
(* runs the hook above.                                                    *)
(***************************************************************************)
VARIABLES
    bybitWs,            \* "null", or the readyState of this.bybitWs
    subscribedSymbols,  \* this.subscribedSymbols: a Set of keys
    reconnectTimeout,   \* this.reconnectTimeout: "null", "pending", "fired"
    heartbeatInterval,  \* this.heartbeatInterval is set
    snapshotCache,      \* this.snapshotCache: key -> snapshot message
    bybitSubs,          \* the channels the exchange holds for the connection
    upstreamSent,       \* what the last handler sent on this.bybitWs
    clientOpen,         \* the observed client's socket is OPEN
    clientSent,         \* what the last handler sent to the observed client
    acked,              \* keys acknowledged to a client, not unsubscribed since
    lastSnapshot,       \* per key, the latest snapshot the exchange sent
    fullBook,           \* the book of a hook that was handed every message
    synced,             \* the observed client got a snapshot and all since
    closes,             \* how many times the upstream connection closed
    clients,            \* this.clientWss.clients, in order of connection
    otherSent,          \* what the last handler sent to the other client
    holders,            \* the clients that subscribed the page's key and hold it
    lastBroadcast,      \* whether the last handler broadcast, and the send that failed
    sockets,            \* how many upstream sockets are CONNECTING or OPEN
    dropped,            \* where the last handler dropped an unparseable message
    intervals,          \* how many heartbeat intervals are set and not cleared
    timeouts,           \* how many reconnect timeouts are set, not fired or cleared
    cleanedUp           \* cleanup() has been called

proxyVars ==
    <<bybitWs, subscribedSymbols, reconnectTimeout, heartbeatInterval,
      snapshotCache, bybitSubs, upstreamSent, clientOpen, clientSent, acked,
      lastSnapshot, fullBook, synced, closes, clients, otherSent, holders,
      lastBroadcast, sockets, dropped, intervals, timeouts, cleanedUp>>

\* the downstream clients: the observed one and another
Clients == {"observed", "other"}

\* the last handler did not broadcast
NoBroadcast == [made |-> FALSE, client |-> "none", thrown |-> FALSE]

\* how the sends of one broadcast go: all succeed, or the send to one client
\* fails, either by an exception out of client.send or by an error reported
\* later on that client's socket
SendOutcomes ==
    { [made |-> TRUE, client |-> "none", thrown |-> FALSE] }
        \cup { [made |-> TRUE, client |-> c, thrown |-> t] :
                 c \in Clients, t \in BOOLEAN }

(***************************************************************************)
(* The state of the client connector (WebSocketProvider): its refs, the    *)
(* clock, and the timers it sets.                                          *)
(***************************************************************************)
VARIABLES
    mounted,              \* the mount effect has run
    wsRef,                \* "null", or the readyState of wsRef.current
    isConnectedRef,       \* isConnectedRef.current
    connectingRef,        \* connectingRef.current
    connectAttemptRef,    \* connectAttemptRef.current
    reconnectTimeoutRef,  \* the timer of onclose: "null", "pending", "fired"
    finalDelay,           \* the delay of the timer onclose set last, in ms
    lastMessageTimeRef,   \* lastMessageTimeRef.current: Null, or ms
    watchdogIntervalRef,  \* the watchdog's interval is set
    nextCheck,            \* when the watchdog's interval fires next, in ms
    now,                  \* Date.now(), in ms
    lastArrival,          \* when the socket opened or last delivered a message
    unmounted,            \* the cleanup of the mount effect has run
    wsSockets,            \* how many sockets of the provider are CONNECTING or OPEN
    wsTimers,             \* how many timers of onclose are set, not fired or cleared
    pendingSubscribesRef, \* pendingSubscribesRef.current: the queued subscribes
    wsSent,               \* what the last handler sent on the provider's socket
    effectSymbol          \* the symbol the book's subscribe effect subscribed, or <<>>

providerVars ==
    <<mounted, wsRef, isConnectedRef, connectingRef, connectAttemptRef,
      reconnectTimeoutRef, finalDelay, lastMessageTimeRef,
      watchdogIntervalRef, nextCheck, now, lastArrival, unmounted, wsSockets,
      wsTimers, pendingSubscribesRef, wsSent, effectSymbol>>

(***************************************************************************)
(* The state of the hook useWebSocket (hooks/useWebSocket.js), the         *)
(* connector a component uses without the provider.                        *)
(***************************************************************************)
VARIABLES
    useWsMounted,          \* the mount effect of the hook has run
    useWsRef,              \* its wsRef.current: "null", or the socket's readyState
    reconnectAttemptsRef,  \* reconnectAttemptsRef.current
    useWsTimeoutRef,       \* its reconnectTimeoutRef.current: "null", "pending", "fired"
    error                  \* useState: "null", or the message set last

useWsVars ==
    <<useWsMounted, useWsRef, reconnectAttemptsRef, useWsTimeoutRef, error>>

vars == <<hookVars, proxyVars, providerVars, useWsVars>>

\* the value both useState(...) at mount and the symbol effect set
EmptyBook ==
    [bids |-> <<>>, asks |-> <<>>, timestamp |-> Null, updateId |-> Null,
     lastUpdate |-> Null]

\* the object applySnapshot hands to setOrderBook
SnapshotBook(data) ==
    LET updateId == NumOr(data, "u", 0)
    IN [bids |-> ListOr(data, "b"),
        asks |-> ListOr(data, "a"),
        timestamp |-> NumOr(data, "ts", DateNow),
        updateId |-> updateId,
        lastUpdate |-> DateNow]

\* one side of applyDelta: Map from the current levels, forEach, sort, slice
UpdateSide(side, levels, entries, depth) ==
    Slice(SortLevels(side, ApplyEntries(MapFromLevels(levels), entries)), depth)

\* the update id applyDelta works with: data.u || currentBook.updateId
DeltaUpdateId(data, currentBook) == NumOr(data, "u", currentBook.updateId)

\* variant: no restart branch, every delta is patched onto the current book
ApplyDeltaAlwaysPatch(data, currentBook, depth) ==
    [bids |-> IF NonEmptyList(data, "b")
              THEN UpdateSide("bids", currentBook.bids, data.b, depth)
              ELSE currentBook.bids,
     asks |-> IF NonEmptyList(data, "a")
              THEN UpdateSide("asks", currentBook.asks, data.a, depth)
              ELSE currentBook.asks,
     timestamp |-> NumOr(data, "ts", DateNow),
     updateId |-> DeltaUpdateId(data, currentBook),
     lastUpdate |-> DateNow]

\* applyDelta(data, currentBook) with the hook's depth
ApplyDelta(data, currentBook, depth) ==
    LET updateId == DeltaUpdateId(data, currentBook)
    IN IF updateId = 1
       THEN [bids |-> ListOr(data, "b"),
             asks |-> ListOr(data, "a"),
             timestamp |-> NumOr(data, "ts", DateNow),
             updateId |-> updateId,
             lastUpdate |-> DateNow]
       ELSE [bids |-> IF NonEmptyList(data, "b")
                      THEN UpdateSide("bids", currentBook.bids, data.b, depth)
                      ELSE currentBook.bids,
             asks |-> IF NonEmptyList(data, "a")
                      THEN UpdateSide("asks", currentBook.asks, data.a, depth)
                      ELSE currentBook.asks,
             timestamp |-> NumOr(data, "ts", DateNow),
             updateId |-> updateId,
             lastUpdate |-> DateNow]

\* the test that lets handleMessage go on: not paused, topic for symbol and depth
Accepts(message) ==
    /\ ~paused
    /\ Has(message, "topic")
    /\ Includes(message.topic, symbol)
    /\ Includes(message.topic, TopicPrefix(Depth))

\* the message is one of the hook's channel, by the test of handleMessage
ForChannel(message) ==
    /\ Has(message, "topic")
    /\ Includes(message.topic, symbol)
    /\ Includes(message.topic, TopicPrefix(Depth))

\* variant: a snapshot older than the book (a smaller update id) is skipped
HandledUnlessOlder(message, currentBook) ==
    IF Accepts(message) /\ message.type = "snapshot"
    THEN IF NumOr(message.data, "u", 0) < currentBook.updateId
         THEN currentBook
         ELSE SnapshotBook(message.data)
    ELSE IF Accepts(message) /\ message.type = "delta"
    THEN ApplyDelta(message.data, currentBook, Depth)
    ELSE currentBook

\* the book handleMessage(message) leaves in the orderBook state when the
\* state holds currentBook: applySnapshot(data), or
\* setOrderBook(current => applyDelta(data, current)), or nothing
Handled(message, currentBook) ==
    IF Accepts(message) /\ message.type = "snapshot"
    THEN SnapshotBook(message.data)
    ELSE IF Accepts(message) /\ message.type = "delta"
    THEN ApplyDelta(message.data, currentBook, Depth)
    ELSE currentBook

BookAfter(message) == Handled(message, orderBook)

\* handleMessage(message), with the state updates it queues
HandleMessage(message) ==
    /\ orderBook' = BookAfter(message)
    /\ isLoading' = IF Accepts(message) /\ message.type = "snapshot"
                    THEN FALSE ELSE isLoading
    /\ skipped' = IF paused /\ ForChannel(message) THEN TRUE
                  ELSE IF Accepts(message) /\ message.type = "snapshot" THEN FALSE
                  ELSE skipped
    /\ UNCHANGED <<symbol, paused, feedSide>>

\* togglePaused
TogglePaused ==
    /\ paused' = ~paused
    /\ UNCHANGED <<symbol, orderBook, isLoading, feedSide, skipped>>

\* the effect on [symbol]: the component is given another symbol
SymbolChange(s) ==
    /\ s # symbol
    /\ symbol' = s
    /\ orderBook' = EmptyBook
    /\ isLoading' = TRUE
    /\ skipped' = FALSE
    /\ UNCHANGED <<paused, feedSide>>

(***************************************************************************)
(* The modelled feed.                                                      *)
(***************************************************************************)
Symbols == { <<"BTC", "USDT">>, <<"ETH", "USDT">> }

\* the levels [price, size] the modelled feed quotes
Levels ==
    { <<P99, S5>>, <<P100, S0>>, <<P100, S2>>, <<P100, S5>>, <<P100d0, S5>> }

\* a feed message lists a price string at most once per side
DistinctPrices(l) == \A i, j \in 1..Len(l) : i # j => l[i][1] # l[j][1]

\* level lists of the side the feed fills, in any order
DeepLists ==
    { l \in UNION { [1..n -> Levels] : n \in 0..MaxLen } : DistinctPrices(l) }

\* level lists of the other side: at most one level, at one price
ShallowLists == { <<>>, << <<P100, S0>> >>, << <<P100, S5>> >> }

\* the bid and ask lists of one message; either may be absent from the object
SidesData(bl, al) ==
    { [b |-> x, a |-> y] : x \in bl, y \in al }
        \cup { [b |-> x] : x \in bl } \cup { [a |-> y] : y \in al }

\* the update id: absent, or 1 (restart) .. MaxU
WithU(ds) ==
    ds \cup { [k \in DOMAIN d \cup {"u"} |-> IF k = "u" THEN u ELSE d[k]] :
                d \in ds, u \in 1..MaxU }

BidFeedData == WithU(SidesData(DeepLists, ShallowLists))

AskFeedData == WithU(SidesData(ShallowLists, DeepLists))

FeedData(side) == IF side = "bids" THEN BidFeedData ELSE AskFeedData

\* data that also carry a sequence number, an update id of 0, a timestamp
StampedData ==
    LET b == << <<P100, S5>> >>
    IN { [b |-> b, seq |-> 7], [b |-> b, u |-> 0, seq |-> 7],
         [b |-> b, u |-> 2, seq |-> 7], [b |-> b, u |-> 2, seq |-> 7, ts |-> 5] }

\* messages as the exchange stamps them: the timestamp ts is a field of the
\* message, next to topic, type and data
StampedMessages ==
    { [topic |-> Topic(Depth, symbol), type |-> t, ts |-> 6, data |-> d] :
        t \in {"snapshot", "delta"}, d \in StampedData }

\* the data messages the proxy forwards for the hook's own channel
BookMessages ==
    { [topic |-> Topic(Depth, symbol), type |-> t, data |-> d] :
        t \in {"snapshot", "delta"}, d \in FeedData(feedSide) }
        \cup StampedMessages

\* const orderDepth = depth || 50, and the default of the depth parameters
DefaultDepth == 50

\* the channels of other subscriptions: another symbol, a symbol whose name
\* ends with the hook's symbol, and the hook's symbol at another depth
ForeignTopics ==
    { Topic(Depth, s) : s \in (Symbols \ {symbol}) \cup { <<"W">> \o symbol } }
        \cup { Topic(DefaultDepth, symbol) }

ForeignMessages ==
    { [topic |-> c, type |-> t, data |-> [b |-> << <<P100, S5>> >>, u |-> 2]] :
        c \in ForeignTopics, t \in {"snapshot", "delta"} }

\* the period of the watchdog's setInterval
WatchdogPeriod == 10000

\* the clock advances in steps of half that period, MaxTicks times at most
TimeStep == WatchdogPeriod \div 2

MaxTicks == 12

\* the provider before its mount effect: the initial values of its refs
ProviderConstructed ==
    /\ mounted = FALSE
    /\ wsRef = "null"
    /\ isConnectedRef = FALSE
    /\ connectingRef = FALSE
    /\ connectAttemptRef = 0
    /\ reconnectTimeoutRef = "null"
    /\ finalDelay = 0
    /\ lastMessageTimeRef = Null
    /\ watchdogIntervalRef = FALSE
    /\ nextCheck = 0
    /\ now = TimeStep
    /\ lastArrival = Null
    /\ unmounted = FALSE
    /\ wsSockets = 0
    /\ wsTimers = 0
    /\ pendingSubscribesRef = <<>>
    /\ wsSent = <<>>
    /\ effectSymbol = <<>>

\* the proxy after its constructor(), with nothing downstream
ProxyConstructed ==
    /\ bybitWs = "null"
    /\ subscribedSymbols = {}
    /\ reconnectTimeout = "null"
    /\ heartbeatInterval = FALSE
    /\ snapshotCache = << >>
    /\ bybitSubs = {}
    /\ upstreamSent = <<>>
    /\ clientOpen = FALSE
    /\ clientSent = <<>>
    /\ acked = {}
    /\ lastSnapshot = << >>
    /\ fullBook = EmptyBook
    /\ synced = FALSE
    /\ closes = 0
    /\ sockets = 0
    /\ clients = <<>>
    /\ otherSent = <<>>
    /\ holders = {}
    /\ lastBroadcast = NoBroadcast
    /\ dropped = "none"
    /\ intervals = 0
    /\ timeouts = 0
    /\ cleanedUp = FALSE

\* the refs and the state of useWebSocket at the first render
UseWebSocketConstructed ==
    /\ useWsMounted = FALSE
    /\ useWsRef = "null"
    /\ reconnectAttemptsRef = 0
    /\ useWsTimeoutRef = "null"
    /\ error = "null"

Init ==
    /\ symbol \in Symbols
    /\ orderBook = EmptyBook
    /\ isLoading = TRUE
    /\ paused = FALSE
    /\ skipped = FALSE
    /\ feedSide \in {"bids", "asks"}
    /\ ProxyConstructed
    /\ ProviderConstructed
    /\ UseWebSocketConstructed

Receive == (\E m \in BookMessages : HandleMessage(m)) /\ UNCHANGED <<proxyVars, providerVars, useWsVars>>

\* the proxy broadcasts every channel to every client: the hook is also
\* handed the messages of the channels other hooks and pages asked for
Overhear == (\E m \in ForeignMessages : HandleMessage(m)) /\ UNCHANGED <<proxyVars, providerVars, useWsVars>>

Rerender == (\E s \in Symbols : SymbolChange(s)) /\ UNCHANGED <<proxyVars, providerVars, useWsVars>>

Next == Receive \/ Overhear \/ Rerender

Spec == Init /\ [][Next]_vars

\* the messages of the feed that carry one list and the update id MaxU
ListMessages ==
    { m \in BookMessages :
        /\ Has(m.data, "u")
        /\ m.data.u = MaxU
        /\ DOMAIN m.data \in { {"b", "u"}, {"a", "u"} } }

ReceiveList == (\E m \in ListMessages : HandleMessage(m)) /\ UNCHANGED <<proxyVars, providerVars, useWsVars>>

\* the hook under a feed of such messages: the books the trimming of
\* applyDelta and the grouping of the display are applied to
ListNext == ReceiveList \/ Rerender

ListSpec == Init /\ [][ListNext]_vars

\* the user pauses or resumes the book
Pause == TogglePaused /\ UNCHANGED <<proxyVars, providerVars, useWsVars>>

\* the hook under that feed with the pause button in use
PauseNext == ReceiveList \/ Rerender \/ Pause

PauseSpec == Init /\ [][PauseNext]_vars

(***************************************************************************)
(* The proxy: class BybitProxy of the backend.                             *)
(***************************************************************************)
\* `${symbol}-${depth}`
Key(sym, depth) == sym \o <<"-", ToString(depth)>>

\* [...set]: the members of a Set as an array (the insertion order of the
\* Set is not modelled; the order of the array is some fixed order)
RECURSIVE SetToSeq(_)
SetToSeq(S) ==
    IF S = {} THEN <<>>
    ELSE LET x == CHOOSE y \in S : TRUE IN <<x>> \o SetToSeq(S \ {x})

Range(s) == { s[i] : i \in 1..Len(s) }

\* Map.prototype.set on a Map held as a function over the keys present
CachePut(cache, key, value) ==
    [k \in DOMAIN cache \cup {key} |-> IF k = key THEN value ELSE cache[k]]

\* topic.split('.'): the parts between the dots
RECURSIVE Split(_)
Split(s) ==
    IF \A i \in 1..Len(s) : s[i] # "."
    THEN <<s>>
    ELSE LET d == DotPos(s)
         IN <<SubSeq(s, 1, d - 1)>> \o Split(SubSeq(s, d + 1, Len(s)))

\* handleBybitMessage: parts[1] is the depth, parts[2] the symbol, and the
\* cache key is `${symbol}-${depth}`
CacheKey(topic) ==
    LET parts == Split(topic)
        depth == IF Len(parts) >= 2 THEN parts[2] ELSE <<"undefined">>
        sym == IF Len(parts) >= 3 THEN parts[3] ELSE <<"undefined">>
    IN sym \o <<"-">> \o depth

\* variant: no filter against the keys already subscribed
SubscribeToSymbolsUnfiltered(ready, symbols, depth) ==
    LET args == [i \in 1..Len(symbols) |-> Topic(depth, symbols[i])]
    IN IF ~ready \/ Len(symbols) = 0
       THEN [sent |-> <<>>, subscribedSymbols |-> subscribedSymbols]
       ELSE [sent |-> << [op |-> "subscribe", args |-> args] >>,
             subscribedSymbols |->
                 subscribedSymbols \cup { Key(sym, depth) : sym \in Range(symbols) }]

\* subscribeToSymbols(symbols, depth) when this.bybitWs is OPEN or not
\* (ready): what it sends upstream and the subscription set it leaves
SubscribeToSymbols(ready, symbols, depth) ==
    LET newSymbols ==
            SelectSeq(symbols, LAMBDA sym : Key(sym, depth) \notin subscribedSymbols)
        args == [i \in 1..Len(newSymbols) |-> Topic(depth, newSymbols[i])]
    IN IF ~ready \/ Len(newSymbols) = 0
       THEN [sent |-> <<>>, subscribedSymbols |-> subscribedSymbols]
       ELSE [sent |-> << [op |-> "subscribe", args |-> args] >>,
             subscribedSymbols |->
                 subscribedSymbols \cup { Key(sym, depth) : sym \in Range(newSymbols) }]

\* variant: no filter, every symbol of the request is unsubscribed
UnsubscribeFromSymbolsUnfiltered(ready, symbols, depth) ==
    LET args == [i \in 1..Len(symbols) |-> Topic(depth, symbols[i])]
    IN IF ~ready \/ Len(symbols) = 0
       THEN [sent |-> <<>>, subscribedSymbols |-> subscribedSymbols]
       ELSE [sent |-> << [op |-> "unsubscribe", args |-> args] >>,
             subscribedSymbols |->
                 subscribedSymbols \ { Key(sym, depth) : sym \in Range(symbols) }]

\* unsubscribeFromSymbols(symbols, depth)
UnsubscribeFromSymbols(ready, symbols, depth) ==
    LET subscribed ==
            SelectSeq(symbols, LAMBDA sym : Key(sym, depth) \in subscribedSymbols)
        args == [i \in 1..Len(subscribed) |-> Topic(depth, subscribed[i])]
    IN IF ~ready \/ Len(subscribed) = 0
       THEN [sent |-> <<>>, subscribedSymbols |-> subscribedSymbols]
       ELSE [sent |-> << [op |-> "unsubscribe", args |-> args] >>,
             subscribedSymbols |->
                 subscribedSymbols \ { Key(sym, depth) : sym \in Range(subscribed) }]

\* the exchange's end: the channels it holds after the proxy's sends
RECURSIVE Exchange(_, _)
Exchange(subs, sent) ==
    IF sent = <<>> THEN subs
    ELSE LET m == Head(sent)
         IN Exchange(IF m.op = "subscribe" THEN subs \cup Range(m.args)
                     ELSE IF m.op = "unsubscribe" THEN subs \ Range(m.args)
                     ELSE subs,
                     Tail(sent))

\* the observed client's hook is handed the messages sent to it, in order
RECURSIVE HandledAll(_, _)
HandledAll(messages, book) ==
    IF messages = <<>> THEN book
    ELSE HandledAll(Tail(messages), Handled(Head(messages), book))

\* one of the messages is a snapshot the hook applies
AppliesSnapshot(messages) ==
    \E i \in 1..Len(messages) :
        /\ Accepts(messages[i])
        /\ messages[i].type = "snapshot"

\* what the page of the observed client does with the messages sent to it
Deliver(messages) ==
    /\ clientSent' = messages
    /\ dropped' = "none"
    /\ UNCHANGED <<providerVars, useWsVars>>
    /\ orderBook' = HandledAll(messages, orderBook)
    /\ isLoading' = IF AppliesSnapshot(messages) THEN FALSE ELSE isLoading
    /\ synced' = (synced \/ AppliesSnapshot(messages))
    /\ skipped' = IF paused /\ \E i \in 1..Len(messages) : ForChannel(messages[i])
                  THEN TRUE
                  ELSE IF AppliesSnapshot(messages) THEN FALSE ELSE skipped
    /\ UNCHANGED <<symbol, paused, feedSide>>

\* the symbol lists of the requests: the page's symbol, alone, twice, or
\* with another symbol
SymbolLists == { <<symbol>> } \cup { <<symbol, t>> : t \in Symbols }

\* what a client can ask: ping, subscribe, unsubscribe; depth may be absent
ClientRequests ==
    { [type |-> "ping"] }
        \cup { [action |-> a, symbols |-> l] :
                 a \in {"subscribe", "unsubscribe"}, l \in SymbolLists }
        \cup { [action |-> a, symbols |-> <<symbol>>, depth |-> Depth] :
                 a \in {"subscribe", "unsubscribe"} }

\* the order-book messages the exchange sends on a channel
ExchangeData == { [b |-> << <<P100, S5>> >>, u |-> 2], [b |-> << <<P99, S5>> >>, u |-> 2] }

ControlMessages == { [op |-> "pong"], [op |-> "subscribe", success |-> TRUE] }

ExchangeMessages ==
    ControlMessages
        \cup { [topic |-> Topic(d, s), type |-> t, data |-> x] :
                 d \in {Depth, DefaultDepth}, s \in Symbols,
                 t \in {"snapshot", "delta"}, x \in ExchangeData }

\* the requests of a page whose hook has the symbol and depth modelled above
HookRequests ==
    { [action |-> a, symbols |-> <<symbol>>, depth |-> Depth] :
        a \in {"subscribe", "unsubscribe"} }
        \cup { [action |-> "subscribe", symbols |-> <<symbol>>] }

\* nothing is sent to the observed client and its page does nothing
Quiet ==
    /\ clientSent' = <<>>
    /\ dropped' = "none"
    /\ UNCHANGED <<providerVars, useWsVars>>
    /\ UNCHANGED <<hookVars, synced>>

\* an event of the upstream connection: nothing is sent downstream
Silent ==
    /\ Quiet
    /\ otherSent' = <<>>
    /\ lastBroadcast' = NoBroadcast
    /\ UNCHANGED <<clients, holders>>

\* a socket in this readyState is CONNECTING or OPEN
Live(readyState) == readyState \in {"connecting", "open"}

\* connectToBybit(): a new socket. The previous one, if any, is terminated;
\* it is already CLOSED whenever this is entered (startup, reconnect timer)
ConnectToBybit ==
    /\ bybitWs' = "connecting"
    /\ sockets' = (IF Live(bybitWs) THEN sockets - 1 ELSE sockets) + 1
    /\ bybitSubs' = {}
    /\ upstreamSent' = <<>>
    /\ Silent
    /\ UNCHANGED <<subscribedSymbols, heartbeatInterval, snapshotCache,
                   clientOpen, acked, lastSnapshot, fullBook, closes>>
    /\ UNCHANGED <<intervals, cleanedUp>>

\* startup: bybitProxy.connectToBybit()
Start ==
    /\ bybitWs = "null"
    /\ ConnectToBybit
    /\ UNCHANGED reconnectTimeout
    /\ UNCHANGED timeouts

\* variant: the timer fires and no connection is made
ReconnectTimerIdle ==
    /\ reconnectTimeout = "pending"
    /\ reconnectTimeout' = "fired"
    /\ upstreamSent' = <<>>
    /\ Silent
    /\ UNCHANGED <<bybitWs, bybitSubs, subscribedSymbols, heartbeatInterval,
                   snapshotCache, clientOpen, acked, lastSnapshot, fullBook, closes,
                   sockets>>
    /\ timeouts' = timeouts - 1
    /\ UNCHANGED <<intervals, cleanedUp>>

\* variant: the timer is periodic and stays set after it fires
ReconnectTimerRepeats ==
    /\ reconnectTimeout = "pending"
    /\ reconnectTimeout' = "pending"
    /\ ConnectToBybit
    /\ UNCHANGED timeouts

\* the timer of scheduleReconnect fires
ReconnectTimer ==
    /\ reconnectTimeout = "pending"
    /\ reconnectTimeout' = "fired"
    /\ ConnectToBybit
    /\ timeouts' = timeouts - 1

\* startHeartbeat(): a new interval, whose handle replaces the one held
StartHeartbeat ==
    /\ heartbeatInterval' = TRUE
    /\ intervals' = intervals + 1

\* variant: the interval whose handle is held is not cleared
StopHeartbeatKeepsInterval ==
    /\ heartbeatInterval' = FALSE
    /\ intervals' = intervals

\* stopHeartbeat(): clearInterval on the handle held, if any
StopHeartbeat ==
    /\ heartbeatInterval' = FALSE
    /\ intervals' = IF heartbeatInterval THEN intervals - 1 ELSE intervals

\* bybitWs.on('open'): startHeartbeat(), then resubscribe
UpstreamOpen ==
    /\ bybitWs = "connecting"
    /\ bybitWs' = "open"
    /\ StartHeartbeat
    /\ LET r == IF subscribedSymbols # {}
                THEN SubscribeToSymbols(TRUE, SetToSeq(subscribedSymbols), DefaultDepth)
                ELSE [sent |-> <<>>, subscribedSymbols |-> subscribedSymbols]
       IN /\ upstreamSent' = r.sent
          /\ subscribedSymbols' = r.subscribedSymbols
          /\ bybitSubs' = Exchange(bybitSubs, r.sent)
    /\ Silent
    /\ UNCHANGED <<reconnectTimeout, snapshotCache, clientOpen, acked,
                   lastSnapshot, fullBook, closes,
                   sockets>>
    /\ UNCHANGED <<timeouts, cleanedUp>>

\* bybitWs.on('error'): logs. The socket that emitted it is CLOSING and its
\* 'close' follows
UpstreamError ==
    /\ bybitWs \in {"connecting", "open"}
    /\ closes < MaxCloses
    /\ bybitWs' = "closing"
    /\ sockets' = sockets - 1
    /\ upstreamSent' = <<>>
    /\ Silent
    /\ UNCHANGED <<subscribedSymbols, reconnectTimeout, heartbeatInterval,
                   snapshotCache, bybitSubs, clientOpen, acked, lastSnapshot,
                   fullBook, closes>>
    /\ UNCHANGED <<intervals, timeouts, cleanedUp>>

\* variant: no timer is set
ScheduleReconnectSkipped ==
    /\ reconnectTimeout' = reconnectTimeout
    /\ timeouts' = timeouts

\* scheduleReconnect(): clearTimeout on the pending timer, a new timer
ScheduleReconnect ==
    /\ reconnectTimeout' = "pending"
    /\ timeouts' = (IF reconnectTimeout = "pending" THEN timeouts - 1 ELSE timeouts) + 1

\* bybitWs.on('close'): stopHeartbeat(), scheduleReconnect()
UpstreamClose ==
    /\ \/ bybitWs = "closing"
       \/ bybitWs \in {"connecting", "open"} /\ closes < MaxCloses
    /\ bybitWs' = "closed"
    /\ StopHeartbeat
    /\ ScheduleReconnect
    /\ closes' = closes + 1
    /\ sockets' = IF Live(bybitWs) THEN sockets - 1 ELSE sockets
    /\ upstreamSent' = <<>>
    /\ Silent
    /\ UNCHANGED <<subscribedSymbols, snapshotCache, bybitSubs, clientOpen,
                   acked, lastSnapshot, fullBook>>
    /\ UNCHANGED cleanedUp

\* a downstream connection is accepted / closes: the proxy only logs, and
\* the server keeps the set of its clients
ClientConnect ==
    /\ ~clientOpen
    /\ clientOpen' = TRUE
    /\ clients' = Append(clients, "observed")
    /\ clientSent' = <<>>
    /\ otherSent' = <<>>
    /\ upstreamSent' = <<>>
    /\ lastBroadcast' = NoBroadcast
    /\ dropped' = "none"
    /\ UNCHANGED <<hookVars, synced>>
    /\ UNCHANGED <<providerVars, useWsVars>>
    /\ UNCHANGED <<bybitWs, subscribedSymbols, reconnectTimeout,
                   heartbeatInterval, snapshotCache, bybitSubs, acked,
                   lastSnapshot, fullBook, closes, sockets, holders>>
    /\ UNCHANGED <<intervals, timeouts, cleanedUp>>

\* variant: the close handler ends the upstream subscriptions
ClientCloseUnsubscribes ==
    /\ clientOpen
    /\ clientOpen' = FALSE
    /\ clients' = SelectSeq(clients, LAMBDA c : c # "observed")
    /\ holders' = holders \ {"observed"}
    /\ subscribedSymbols' = {}
    /\ clientSent' = <<>>
    /\ otherSent' = <<>>
    /\ dropped' = "none"
    /\ UNCHANGED <<providerVars, useWsVars>>
    /\ synced' = FALSE
    /\ upstreamSent' = <<>>
    /\ lastBroadcast' = NoBroadcast
    /\ UNCHANGED hookVars
    /\ UNCHANGED <<bybitWs, reconnectTimeout, heartbeatInterval,
                   snapshotCache, bybitSubs, acked, lastSnapshot, fullBook,
                   closes,
                   sockets>>
    /\ UNCHANGED <<intervals, timeouts, cleanedUp>>

ClientClose ==
    /\ clientOpen
    /\ clientOpen' = FALSE
    /\ clients' = SelectSeq(clients, LAMBDA c : c # "observed")
    /\ holders' = holders \ {"observed"}
    /\ clientSent' = <<>>
    /\ otherSent' = <<>>
    /\ dropped' = "none"
    /\ UNCHANGED <<providerVars, useWsVars>>
    /\ synced' = FALSE
    /\ upstreamSent' = <<>>
    /\ lastBroadcast' = NoBroadcast
    /\ UNCHANGED hookVars
    /\ UNCHANGED <<bybitWs, subscribedSymbols, reconnectTimeout,
                   heartbeatInterval, snapshotCache, bybitSubs, acked,
                   lastSnapshot, fullBook, closes,
                   sockets>>
    /\ UNCHANGED <<intervals, timeouts, cleanedUp>>

\* the same two events for the other client
OtherConnect ==
    /\ "other" \notin Range(clients)
    /\ clients' = Append(clients, "other")
    /\ Quiet
    /\ otherSent' = <<>>
    /\ upstreamSent' = <<>>
    /\ lastBroadcast' = NoBroadcast
    /\ UNCHANGED <<bybitWs, subscribedSymbols, reconnectTimeout,
                   heartbeatInterval, snapshotCache, bybitSubs, clientOpen,
                   acked, lastSnapshot, fullBook, closes, sockets, holders>>
    /\ UNCHANGED <<intervals, timeouts, cleanedUp>>

OtherClose ==
    /\ "other" \in Range(clients)
    /\ clients' = SelectSeq(clients, LAMBDA c : c # "other")
    /\ holders' = holders \ {"other"}
    /\ Quiet
    /\ otherSent' = <<>>
    /\ upstreamSent' = <<>>
    /\ lastBroadcast' = NoBroadcast
    /\ UNCHANGED <<bybitWs, subscribedSymbols, reconnectTimeout,
                   heartbeatInterval, snapshotCache, bybitSubs, clientOpen,
                   acked, lastSnapshot, fullBook, closes,
                   sockets>>
    /\ UNCHANGED <<intervals, timeouts, cleanedUp>>

\* a send to the client that made the request: tracked for the observed one
Reply(from, messages) ==
    IF from = "observed"
    THEN Deliver(messages) /\ otherSent' = <<>>
    ELSE Quiet /\ otherSent' = messages

\* variant: nothing cached is sent
CachedSnapshotsNone(symbols, orderDepth) == <<>>

\* the cached snapshots handleClientMessage sends for a subscribe
RECURSIVE CachedSnapshots(_, _)
CachedSnapshots(symbols, orderDepth) ==
    IF symbols = <<>> THEN <<>>
    ELSE LET cacheKey == Key(Head(symbols), orderDepth)
         IN (IF cacheKey \in DOMAIN snapshotCache
             THEN <<snapshotCache[cacheKey]>> ELSE <<>>)
                \o CachedSnapshots(Tail(symbols), orderDepth)

\* handleClientMessage(ws, data), for the observed client or another one
HandleClientMessage(from, data) ==
    /\ from \in Range(clients)
    /\ lastBroadcast' = NoBroadcast
    /\ UNCHANGED clients
    /\ IF Has(data, "type") /\ data.type = "ping"
       THEN /\ Reply(from, << [type |-> "pong", timestamp |-> DateNow] >>)
            /\ upstreamSent' = <<>>
            /\ UNCHANGED <<subscribedSymbols, bybitSubs, acked, holders>>
       ELSE LET orderDepth == NumOr(data, "depth", DefaultDepth)
                keys == { Key(sym, orderDepth) : sym \in Range(data.symbols) }
            IN IF data.action = "subscribe"
               THEN LET r == SubscribeToSymbols(bybitWs = "open", data.symbols, orderDepth)
                    IN /\ upstreamSent' = r.sent
                       /\ subscribedSymbols' = r.subscribedSymbols
                       /\ bybitSubs' = Exchange(bybitSubs, r.sent)
                       /\ Reply(from, CachedSnapshots(data.symbols, orderDepth)
                                 \o << [type |-> "subscribed",
                                        symbols |-> data.symbols,
                                        depth |-> orderDepth] >>)
                       /\ acked' = acked \cup keys
                       /\ holders' = IF Key(symbol, Depth) \in keys
                                     THEN holders \cup {from} ELSE holders
               ELSE LET r == UnsubscribeFromSymbols(bybitWs = "open", data.symbols, orderDepth)
                    IN /\ upstreamSent' = r.sent
                       /\ subscribedSymbols' = r.subscribedSymbols
                       /\ bybitSubs' = Exchange(bybitSubs, r.sent)
                       /\ Reply(from, <<>>)
                       /\ acked' = acked \ keys
                       /\ holders' = IF Key(symbol, Depth) \in keys
                                     THEN holders \ {from} ELSE holders
    /\ UNCHANGED <<bybitWs, reconnectTimeout, heartbeatInterval, snapshotCache,
                   clientOpen, lastSnapshot, fullBook, closes,
                   sockets>>
    /\ UNCHANGED <<intervals, timeouts, cleanedUp>>

\* variant: every order-book message is cached, deltas too
CacheAnyMessage(cache, message) ==
    CachePut(cache, CacheKey(message.topic), message)

\* handleBybitMessage: if (message.type === 'snapshot') snapshotCache.set(...)
CacheSnapshot(cache, message) ==
    IF message.type = "snapshot"
    THEN CachePut(cache, CacheKey(message.topic), message)
    ELSE cache

\* broadcast(message): clients.forEach, with a send to each client that is
\* OPEN; the clients that are sent the message. A send that fails with an
\* exception ends the forEach; one that fails later does not
RECURSIVE Broadcast(_, _)
Broadcast(order, outcome) ==
    IF order = <<>> THEN {}
    ELSE IF Head(order) = outcome.client
         THEN IF outcome.thrown THEN {} ELSE Broadcast(Tail(order), outcome)
         ELSE {Head(order)} \cup Broadcast(Tail(order), outcome)

\* the observed client is open and misses a message of the broadcast
Missed ==
    /\ clientSent' = <<>>
    /\ dropped' = "none"
    /\ UNCHANGED <<providerVars, useWsVars>>
    /\ synced' = FALSE
    /\ UNCHANGED hookVars

\* handleBybitMessage(message), with broadcast(message)
HandleBybitMessage(message, outcome) ==
    /\ bybitWs = "open"
    /\ Has(message, "topic") => message.topic \in bybitSubs
    /\ outcome.client \in Range(clients) \cup {"none"}
    /\ IF Has(message, "topic") /\ message.topic[1] = "orderbook"
       THEN LET reached == Broadcast(clients, outcome)
            IN /\ snapshotCache' = CacheSnapshot(snapshotCache, message)
               /\ IF "observed" \in reached THEN Deliver(<<message>>)
                  ELSE IF clientOpen THEN Missed
                  ELSE Quiet
               /\ otherSent' = IF "other" \in reached THEN <<message>> ELSE <<>>
               /\ lastBroadcast' = outcome
               /\ fullBook' = Handled(message, fullBook)
       ELSE /\ outcome.client = "none"
            /\ Quiet
            /\ otherSent' = <<>>
            /\ lastBroadcast' = NoBroadcast
            /\ UNCHANGED <<snapshotCache, fullBook>>
    /\ upstreamSent' = <<>>
    /\ UNCHANGED <<bybitWs, subscribedSymbols, reconnectTimeout,
                   heartbeatInterval, bybitSubs, clientOpen, acked, closes, sockets,
                   clients, holders>>
    /\ UNCHANGED <<intervals, timeouts, cleanedUp>>

\* the exchange sends one of the messages; for a snapshot of the channel of
\* (s, d) the record of the latest snapshot of that key is kept
ExchangeSends(messages) ==
    \E message \in messages : \E outcome \in SendOutcomes :
        /\ HandleBybitMessage(message, outcome)
        /\ lastSnapshot' =
              IF Has(message, "topic") /\ message.type = "snapshot"
              THEN LET sd == CHOOSE sd \in Symbols \X {Depth, DefaultDepth} :
                                 message.topic = Topic(sd[2], sd[1])
                   IN CachePut(lastSnapshot, Key(sd[1], sd[2]), message)
              ELSE lastSnapshot

\* a client, the observed one or another, sends one of the requests
ClientAsks(requests) ==
    \E from \in Clients : \E data \in requests :
        HandleClientMessage(from, data)

ProxyInit ==
    /\ symbol \in Symbols
    /\ orderBook = EmptyBook
    /\ isLoading = TRUE
    /\ paused = FALSE
    /\ skipped = FALSE
    /\ feedSide = "bids"
    /\ ProxyConstructed
    /\ ProviderConstructed
    /\ UseWebSocketConstructed

\* the connection events of the proxy
Connection ==
    \/ Start
    \/ ReconnectTimer
    \/ UpstreamOpen
    \/ UpstreamError
    \/ UpstreamClose
    \/ ClientConnect
    \/ ClientClose

\* subscription management: every request, no order-book traffic
ProxyNext ==
    \/ Connection
    \/ ClientAsks(ClientRequests)
    \/ ExchangeSends(ControlMessages)

ProxySpec == ProxyInit /\ [][ProxyNext]_vars

\* the relay of order-book messages to the page of the observed client,
\* which asks for the channel of its hook
RelayNext ==
    \/ Connection
    \/ ClientAsks(HookRequests)
    \/ ExchangeSends(ExchangeMessages)

RelaySpec == ProxyInit /\ [][RelayNext]_vars

\* the connection life cycle, with the requests of one page, under the
\* scheduling of the timers and of the socket: the timer of
\* scheduleReconnect fires, and a socket that emitted 'error' emits 'close'
LiveNext ==
    \/ Connection
    \/ ClientAsks(HookRequests)
    \/ ExchangeSends(ControlMessages)

LiveSpec ==
    /\ ProxyInit
    /\ [][LiveNext]_vars
    /\ WF_vars(ReconnectTimer)
    /\ WF_vars(bybitWs = "closing" /\ UpstreamClose)

\* the callback of the heartbeat interval: a ping, if the socket is OPEN
HeartbeatTick ==
    /\ intervals > 0
    /\ upstreamSent' = IF bybitWs = "open" THEN << [op |-> "ping"] >> ELSE <<>>
    /\ Silent
    /\ UNCHANGED <<bybitWs, subscribedSymbols, reconnectTimeout,
                   heartbeatInterval, snapshotCache, bybitSubs, clientOpen,
                   acked, lastSnapshot, fullBook, closes, sockets, intervals,
                   timeouts, cleanedUp>>

\* cleanup(), on the first of SIGINT and SIGTERM: stopHeartbeat(),
\* clearTimeout on the timer held, terminate() on the socket held, whose
\* 'close' event follows, and close() on the server of the clients
Cleanup ==
    /\ bybitWs # "null"
    /\ ~cleanedUp
    /\ cleanedUp' = TRUE
    /\ StopHeartbeat
    /\ reconnectTimeout' =
          IF reconnectTimeout = "pending" THEN "cleared" ELSE reconnectTimeout
    /\ timeouts' = IF reconnectTimeout = "pending" THEN timeouts - 1 ELSE timeouts
    /\ bybitWs' = IF bybitWs = "closed" THEN "closed" ELSE "closing"
    /\ sockets' = IF Live(bybitWs) THEN sockets - 1 ELSE sockets
    /\ upstreamSent' = <<>>
    /\ Silent
    /\ UNCHANGED <<subscribedSymbols, snapshotCache, bybitSubs, clientOpen,
                   acked, lastSnapshot, fullBook, closes>>

\* the proxy with its timers and its shutdown
ShutdownNext ==
    \/ Connection
    \/ HeartbeatTick
    \/ Cleanup
    \/ ClientAsks(HookRequests)
    \/ ExchangeSends(ControlMessages)

ShutdownSpec == ProxyInit /\ [][ShutdownNext]_vars

\* a handler whose JSON.parse throws: the catch logs, and nothing is sent
Dropped(where) ==
    /\ dropped' = where
    /\ UNCHANGED <<providerVars, useWsVars>>
    /\ clientSent' = <<>>
    /\ otherSent' = <<>>
    /\ upstreamSent' = <<>>
    /\ lastBroadcast' = NoBroadcast
    /\ UNCHANGED <<subscribedSymbols, reconnectTimeout, heartbeatInterval,
                   snapshotCache, bybitSubs, acked, lastSnapshot, fullBook,
                   synced, closes, sockets, holders>>
    /\ UNCHANGED hookVars
    /\ UNCHANGED <<intervals, timeouts, cleanedUp>>

\* variant: the exception of JSON.parse is not caught and ends the socket
UpstreamMalformedCloses ==
    /\ bybitWs = "open"
    /\ bybitWs' = "closing"
    /\ Dropped("upstream")
    /\ UNCHANGED <<clients, clientOpen>>

\* bybitWs.on('message') with data that is not JSON
UpstreamMalformed ==
    /\ bybitWs = "open"
    /\ Dropped("upstream")
    /\ UNCHANGED <<bybitWs, clients, clientOpen>>

\* ws.on('message') of a downstream client with a message that is not JSON
ClientMalformed ==
    /\ clients # <<>>
    /\ Dropped("downstream")
    /\ UNCHANGED <<bybitWs, clients, clientOpen>>

\* ws.onmessage of the observed client's page with data that is not JSON:
\* broadcastMessage is not reached and no listener is called
PageMalformed ==
    /\ clientOpen
    /\ Dropped("page")
    /\ UNCHANGED <<bybitWs, clients, clientOpen>>

Malformed ==
    \/ UpstreamMalformed
    \/ ClientMalformed
    \/ PageMalformed

\* the order-book messages of the channel of the page's hook
FanoutMessages ==
    { [topic |-> Topic(Depth, symbol), type |-> t,
       data |-> [b |-> << <<P100, S5>> >>, u |-> 2]] :
        t \in {"snapshot", "delta"} }

\* a second downstream client comes and goes
Downstream ==
    \/ OtherConnect
    \/ OtherClose

\* two pages on one proxy: both ask for the same channel, and the messages
\* of that channel are broadcast to them
FanoutNext ==
    \/ Connection
    \/ Downstream
    \/ Malformed
    \/ ClientAsks(HookRequests)
    \/ ExchangeSends(FanoutMessages)

FanoutSpec == ProxyInit /\ [][FanoutNext]_vars


(***************************************************************************)
(* The client connector: WebSocketProvider.  No listener is registered:    *)
(* broadcastMessage stamps the time of the message and calls nobody.       *)
(***************************************************************************)
RECONNECT_DELAY == 1000

STALE_THRESHOLD == 30000

\* Math.min(connectAttemptRef.current + 1, 10)
MaxAttempt == 10

\* const max = 30000
MaxDelay == 30000

\* Math.max(500, ...)
MinDelay == 500

Max(x, y) == IF x >= y THEN x ELSE y

\* Math.random(), in thousandths: a value of [0, 1)
Randoms == {0, 500, 999}

\* variant: the attempt counter is not capped
NextAttemptUncapped(attempt) == attempt + 1

\* const attempt = Math.min(connectAttemptRef.current + 1, 10)
NextAttempt(attempt) == Min(attempt + 1, MaxAttempt)

\* variant: the delay is not capped at max
FinalDelayUncapped(attempt, random) ==
    LET delay == RECONNECT_DELAY * 2^(attempt - 1)
    IN Max(MinDelay, (delay * (9000 + 2 * random)) \div 10000)

\* base, delay, jitter and finalDelay of onclose:
\* Math.floor(delay * 0.9 + random * 0.2 * delay), at least 500
FinalDelay(attempt, random) ==
    LET base == RECONNECT_DELAY * 2^(attempt - 1)
        delay == Min(base, MaxDelay)
    IN Max(MinDelay, (delay * (9000 + 2 * random)) \div 10000)

\* variant: any time at all without a message counts as stale
IsStaleAtOnce(last, t) == IF last = Null \/ last = 0 THEN TRUE ELSE t - last > 0

\* timeSinceLastMessage > STALE_THRESHOLD, with last ? now - last : Infinity
IsStale(last, t) ==
    IF last = Null \/ last = 0 THEN TRUE ELSE t - last > STALE_THRESHOLD

\* what the provider's actions leave alone
ProviderFrame == UNCHANGED <<hookVars, proxyVars, useWsVars>>

\* a handler that sends nothing and leaves the queue, the mount and the
\* book's effect alone
ProviderIdle ==
    /\ wsSent' = <<>>
    /\ UNCHANGED <<unmounted, pendingSubscribesRef, effectSymbol>>

\* variant: connect() returns early only when the socket is OPEN
ConnectGuardOpenOnly(connecting, readyState) == readyState = "open"

\* the test on which connect() returns early
ConnectGuard(connecting, readyState) == connecting \/ readyState = "open"

\* connect(): nothing while an attempt is in flight or the socket is OPEN;
\* otherwise a new socket, CONNECTING
Connect ==
    IF ConnectGuard(connectingRef, wsRef)
    THEN UNCHANGED <<wsRef, connectingRef, wsSockets>>
    ELSE /\ connectingRef' = TRUE
         /\ wsRef' = "connecting"
         /\ wsSockets' = wsSockets + 1

\* variant: the queue is sent and kept
FlushKeepsQueue ==
    /\ wsSent' = pendingSubscribesRef
    /\ UNCHANGED pendingSubscribesRef

\* onopen: the queued subscribes are sent in the order queued, and the
\* queue is emptied
Flush ==
    /\ wsSent' = pendingSubscribesRef
    /\ pendingSubscribesRef' = <<>>

\* the mount effect: connect()
ProviderMount ==
    /\ ~mounted
    /\ mounted' = TRUE
    /\ Connect
    /\ UNCHANGED <<isConnectedRef, connectAttemptRef, reconnectTimeoutRef,
                   finalDelay, lastMessageTimeRef, watchdogIntervalRef,
                   nextCheck, now, lastArrival>>
    /\ UNCHANGED wsTimers
    /\ ProviderIdle
    /\ ProviderFrame

\* ws.onopen: the refs, startHeartbeat(), startWatchdog()
ProviderOpen ==
    /\ wsRef = "connecting"
    /\ wsRef' = "open"
    /\ isConnectedRef' = TRUE
    /\ lastMessageTimeRef' = now
    /\ connectAttemptRef' = 0
    /\ connectingRef' = FALSE
    /\ watchdogIntervalRef' = TRUE
    /\ nextCheck' = now + WatchdogPeriod
    /\ lastArrival' = now
    /\ UNCHANGED <<mounted, reconnectTimeoutRef, finalDelay, now>>
    /\ Flush
    /\ UNCHANGED <<unmounted, wsSockets, wsTimers, effectSymbol>>
    /\ ProviderFrame

\* ws.onmessage with data that parse: broadcastMessage(data)
ProviderMessage ==
    /\ wsRef = "open"
    /\ lastMessageTimeRef' = now
    /\ lastArrival' = now
    /\ UNCHANGED <<mounted, wsRef, isConnectedRef, connectingRef,
                   connectAttemptRef, reconnectTimeoutRef, finalDelay,
                   watchdogIntervalRef, nextCheck, now>>
    /\ UNCHANGED <<wsSockets, wsTimers>>
    /\ ProviderIdle
    /\ ProviderFrame

\* ws.onmessage with data that do not parse: the catch logs
ProviderMalformed ==
    /\ wsRef = "open"
    /\ UNCHANGED <<mounted, wsRef, isConnectedRef, connectingRef,
                   connectAttemptRef, reconnectTimeoutRef, finalDelay,
                   lastMessageTimeRef, watchdogIntervalRef, nextCheck, now,
                   lastArrival, wsSockets, wsTimers>>
    /\ ProviderIdle
    /\ ProviderFrame

\* ws.onclose: the refs, stopHeartbeat(), stopWatchdog(), and the timer
\* that will call connect()
ProviderClose ==
    /\ wsRef \in {"connecting", "open", "closing"}
    /\ wsRef' = "null"
    /\ isConnectedRef' = FALSE
    /\ connectingRef' = FALSE
    /\ watchdogIntervalRef' = FALSE
    /\ nextCheck' = 0
    /\ connectAttemptRef' = NextAttempt(connectAttemptRef)
    /\ \E random \in Randoms :
           finalDelay' = FinalDelay(NextAttempt(connectAttemptRef), random)
    /\ reconnectTimeoutRef' = "pending"
    /\ UNCHANGED <<mounted, lastMessageTimeRef, now, lastArrival>>
    /\ wsSockets' = IF Live(wsRef) THEN wsSockets - 1 ELSE wsSockets
    /\ wsTimers' = (IF reconnectTimeoutRef = "pending" THEN wsTimers - 1 ELSE wsTimers) + 1
    /\ ProviderIdle
    /\ ProviderFrame

\* the timer of onclose fires: connect()
ProviderTimer ==
    /\ reconnectTimeoutRef = "pending"
    /\ reconnectTimeoutRef' = "fired"
    /\ Connect
    /\ UNCHANGED <<mounted, isConnectedRef, connectAttemptRef, finalDelay,
                   lastMessageTimeRef, watchdogIntervalRef, nextCheck, now,
                   lastArrival>>
    /\ wsTimers' = wsTimers - 1
    /\ ProviderIdle
    /\ ProviderFrame

\* the watchdog's interval fires: wsRef.current.close() when the data are
\* stale and the provider is connected
WatchdogCheck ==
    /\ watchdogIntervalRef
    /\ now >= nextCheck
    /\ nextCheck' = nextCheck + WatchdogPeriod
    /\ wsRef' = IF IsStale(lastMessageTimeRef, now) /\ isConnectedRef
                    /\ wsRef = "open"
                THEN "closing" ELSE wsRef
    /\ wsSockets' = IF IsStale(lastMessageTimeRef, now) /\ isConnectedRef
                        /\ wsRef = "open"
                    THEN wsSockets - 1 ELSE wsSockets
    /\ UNCHANGED wsTimers
    /\ ProviderIdle
    /\ UNCHANGED <<mounted, isConnectedRef, connectingRef, connectAttemptRef,
                   reconnectTimeoutRef, finalDelay, lastMessageTimeRef,
                   watchdogIntervalRef, now, lastArrival>>
    /\ ProviderFrame

\* time passes, but not past a check of the watchdog that is due
Advance ==
    /\ now < MaxTicks * TimeStep
    /\ ~(watchdogIntervalRef /\ now >= nextCheck)
    /\ now' = now + TimeStep
    /\ UNCHANGED <<mounted, wsRef, isConnectedRef, connectingRef,
                   connectAttemptRef, reconnectTimeoutRef, finalDelay,
                   lastMessageTimeRef, watchdogIntervalRef, nextCheck,
                   lastArrival>>
    /\ UNCHANGED <<wsSockets, wsTimers>>
    /\ ProviderIdle
    /\ ProviderFrame

ProviderNext ==
    \/ ProviderMount
    \/ ProviderOpen
    \/ ProviderMessage
    \/ ProviderMalformed
    \/ ProviderClose
    \/ ProviderTimer
    \/ WatchdogCheck
    \/ Advance

\* the provider under the scheduling of the browser: a socket that is
\* CLOSING gets its close event, and a timer that is set fires
ProviderSpec ==
    /\ ProxyInit
    /\ [][ProviderNext]_vars
    /\ WF_vars(wsRef = "closing" /\ ProviderClose)
    /\ WF_vars(ProviderTimer)

\* ws.onerror: logs and sets the error state; the close event follows
ProviderError ==
    /\ wsRef \in {"connecting", "open"}
    /\ UNCHANGED <<mounted, wsRef, isConnectedRef, connectingRef,
                   connectAttemptRef, reconnectTimeoutRef, finalDelay,
                   lastMessageTimeRef, watchdogIntervalRef, nextCheck, now,
                   lastArrival, wsSockets, wsTimers>>
    /\ ProviderIdle
    /\ ProviderFrame

\* the cleanup of the mount effect: stopHeartbeat(), stopWatchdog(),
\* clearTimeout on the timer held, close() on the socket held, whose close
\* event follows
ProviderUnmount ==
    /\ mounted
    /\ ~unmounted
    /\ unmounted' = TRUE
    /\ watchdogIntervalRef' = FALSE
    /\ nextCheck' = 0
    /\ reconnectTimeoutRef' =
          IF reconnectTimeoutRef = "pending" THEN "cleared" ELSE reconnectTimeoutRef
    /\ wsTimers' = IF reconnectTimeoutRef = "pending" THEN wsTimers - 1 ELSE wsTimers
    /\ wsRef' = IF wsRef = "null" THEN "null" ELSE "closing"
    /\ wsSockets' = IF Live(wsRef) THEN wsSockets - 1 ELSE wsSockets
    /\ wsSent' = <<>>
    /\ UNCHANGED <<mounted, isConnectedRef, connectingRef, connectAttemptRef,
                   finalDelay, lastMessageTimeRef, now, lastArrival,
                   pendingSubscribesRef, effectSymbol>>
    /\ ProviderFrame

\* the queue of subscribes holds MaxQueue messages at most
MaxQueue == 2

SubscribeMessage(symbols, depth) ==
    [action |-> "subscribe", symbols |-> symbols, depth |-> depth]

UnsubscribeMessage(symbols, depth) ==
    [action |-> "unsubscribe", symbols |-> symbols, depth |-> depth]

\* subscribe(symbols, depth): sendMessage, and the queue if it did not send
Subscribe(sym, depth) ==
    IF wsRef = "open"
    THEN /\ wsSent' = << SubscribeMessage(<<sym>>, depth) >>
         /\ UNCHANGED pendingSubscribesRef
    ELSE /\ wsSent' = <<>>
         /\ pendingSubscribesRef' =
               Append(pendingSubscribesRef, SubscribeMessage(<<sym>>, depth))

\* unsubscribe(symbols, depth): dropped unless the socket is OPEN
Unsubscribe(sym, depth) ==
    /\ wsSent' = IF wsRef = "open"
                 THEN << UnsubscribeMessage(<<sym>>, depth) >> ELSE <<>>
    /\ UNCHANGED pendingSubscribesRef

\* what the effects of the book leave alone in the provider
EffectFrame ==
    UNCHANGED <<mounted, wsRef, isConnectedRef, connectingRef,
                connectAttemptRef, reconnectTimeoutRef, finalDelay,
                lastMessageTimeRef, watchdogIntervalRef, nextCheck, now,
                lastArrival, unmounted, wsSockets, wsTimers, proxyVars,
                useWsVars>>

\* the subscribe effect of the book's hook runs, isConnected being true:
\* subscribe(symbol, depth) and setIsLoading(true)
BookEffect ==
    /\ mounted
    /\ isConnectedRef
    /\ effectSymbol = <<>>
    /\ Len(pendingSubscribesRef) < MaxQueue
    /\ Subscribe(symbol, Depth)
    /\ effectSymbol' = symbol
    /\ isLoading' = TRUE
    /\ UNCHANGED <<symbol, orderBook, paused, feedSide, skipped>>
    /\ EffectFrame

\* the cleanup of that effect, when isConnected or the symbol has changed:
\* unsubscribe(symbol, depth) with the symbol it subscribed
BookCleanup ==
    /\ effectSymbol # <<>>
    /\ ~isConnectedRef \/ effectSymbol # symbol
    /\ Unsubscribe(effectSymbol, Depth)
    /\ effectSymbol' = <<>>
    /\ UNCHANGED hookVars
    /\ EffectFrame

\* forty seconds pass without a message
Silence ==
    /\ now < MaxTicks * TimeStep
    /\ ~(watchdogIntervalRef /\ now >= nextCheck)
    /\ now' = now + STALE_THRESHOLD + WatchdogPeriod
    /\ UNCHANGED <<mounted, wsRef, isConnectedRef, connectingRef,
                   connectAttemptRef, reconnectTimeoutRef, finalDelay,
                   lastMessageTimeRef, watchdogIntervalRef, nextCheck,
                   lastArrival, wsSockets, wsTimers>>
    /\ ProviderIdle
    /\ ProviderFrame

\* one book under the provider: its symbol changes, its subscribe effect
\* runs and is cleaned up, while the socket opens, goes stale and closes
QueueNext ==
    \/ ProviderMount
    \/ ProviderOpen
    \/ ProviderClose
    \/ ProviderTimer
    \/ WatchdogCheck
    \/ Silence
    \/ Rerender
    \/ BookEffect
    \/ BookCleanup

QueueSpec == ProxyInit /\ [][QueueNext]_vars

(***************************************************************************)
(* The hook useWebSocket: connect() and its handlers, and the mount        *)
(* effect.                                                                 *)
(***************************************************************************)
MAX_RECONNECT_ATTEMPTS == 10

\* what the handlers of useWebSocket leave alone
UseWsFrame == UNCHANGED <<hookVars, proxyVars, providerVars>>

\* the mount effect: connect(), which creates a socket and holds it
UseWsMount ==
    /\ ~useWsMounted
    /\ useWsMounted' = TRUE
    /\ useWsRef' = "connecting"
    /\ UNCHANGED <<reconnectAttemptsRef, useWsTimeoutRef, error>>
    /\ UseWsFrame

\* ws.onopen: setError(null) and the attempts start again from 0
UseWsOpen ==
    /\ useWsRef = "connecting"
    /\ useWsRef' = "open"
    /\ error' = "null"
    /\ reconnectAttemptsRef' = 0
    /\ UNCHANGED <<useWsMounted, useWsTimeoutRef>>
    /\ UseWsFrame

\* ws.onerror: setError; the close event follows
UseWsError ==
    /\ useWsRef \in {"connecting", "open"}
    /\ error' = "WebSocket connection error"
    /\ UNCHANGED <<useWsMounted, useWsRef, reconnectAttemptsRef, useWsTimeoutRef>>
    /\ UseWsFrame

\* ws.onclose: wsRef.current = null, and a timer that will call connect()
\* while the attempts are fewer than MAX_RECONNECT_ATTEMPTS
UseWsClose ==
    /\ useWsRef \in {"connecting", "open"}
    /\ useWsRef' = "null"
    /\ IF reconnectAttemptsRef < MAX_RECONNECT_ATTEMPTS
       THEN /\ reconnectAttemptsRef' = reconnectAttemptsRef + 1
            /\ useWsTimeoutRef' = "pending"
            /\ UNCHANGED error
       ELSE /\ error' = "Max reconnection attempts reached"
            /\ UNCHANGED <<reconnectAttemptsRef, useWsTimeoutRef>>
    /\ UNCHANGED useWsMounted
    /\ UseWsFrame

\* the timer of onclose fires: connect()
UseWsTimer ==
    /\ useWsTimeoutRef = "pending"
    /\ useWsTimeoutRef' = "fired"
    /\ useWsRef' = "connecting"
    /\ UNCHANGED <<useWsMounted, reconnectAttemptsRef, error>>
    /\ UseWsFrame

\* the two client connectors, each mounted once, their sockets opening and
\* closing, under the scheduling of the browser: a timer that is set fires
ReconnectNext ==
    \/ ProviderMount
    \/ ProviderOpen
    \/ ProviderClose
    \/ ProviderTimer
    \/ UseWsMount
    \/ UseWsOpen
    \/ UseWsError
    \/ UseWsClose
    \/ UseWsTimer

ReconnectSpec ==
    /\ ProxyInit
    /\ [][ReconnectNext]_vars
    /\ WF_vars(ProviderTimer)
    /\ WF_vars(UseWsTimer)

\* the provider from its mount to after its unmount
ConnectorNext ==
    \/ ProviderNext
    \/ ProviderError
    \/ ProviderUnmount

ConnectorSpec == ProxyInit /\ [][ConnectorNext]_vars

(***************************************************************************)
(* Vocabulary of the properties.                                           *)
(***************************************************************************)
Snapshots == { m \in BookMessages : m.type = "snapshot" }

Deltas == { m \in BookMessages : m.type = "delta" }

\* the update id a message carries itself; 0 when it carries none
OwnU(m) == IF Has(m.data, "u") THEN m.data.u ELSE 0

\* the list a message carries for a side of the book ("bids" is b, "asks" is a)
Listed(m, side) == ListOr(m.data, IF side = "bids" THEN "b" ELSE "a")

Sides == {"bids", "asks"}

Other(side) == IF side = "bids" THEN "asks" ELSE "bids"

LevelSet(levels) == { levels[i] : i \in 1..Len(levels) }

PricesOf(levels) == { levels[i][1] : i \in 1..Len(levels) }

IsZero(size) == ParseFloat(size) = 0

NoZeroSize(levels) == \A i \in 1..Len(levels) : ~IsZero(levels[i][2])

\* level x is strictly nearer the best price of the side than level y
Better(side, x, y) ==
    IF side = "bids" THEN ParseFloat(x[1]) > ParseFloat(y[1])
    ELSE ParseFloat(x[1]) < ParseFloat(y[1])

StrictlySorted(side, levels) ==
    \A i \in 1..(Len(levels) - 1) : Better(side, levels[i], levels[i + 1])

Sorted(side, levels) ==
    \A i \in 1..(Len(levels) - 1) : ~Better(side, levels[i + 1], levels[i])

\* bids, asks and updateId agree
SameLevels(b1, b2) ==
    b1.bids = b2.bids /\ b1.asks = b2.asks /\ b1.updateId = b2.updateId


(***************************************************************************)
(* C1.  Once a snapshot has been applied (isLoading is FALSE from then     *)
(* until the next symbol change), whatever deltas follow, no level of the  *)
(* book has size zero, bids are strictly descending and asks strictly      *)
(* ascending by numeric price.                                             *)
(***************************************************************************)
C1_SortedNonzeroBook ==
    ~isLoading =>
        /\ NoZeroSize(orderBook.bids) /\ NoZeroSize(orderBook.asks)
        /\ StrictlySorted("bids", orderBook.bids)
        /\ StrictlySorted("asks", orderBook.asks)

(***************************************************************************)
(* C7.  While no snapshot has been applied since mount or since the last   *)
(* symbol change (isLoading is TRUE), every delta that arrived was         *)
(* rejected: bids, asks and updateId are still those of the reset book.    *)
(***************************************************************************)
C7_DeltaBeforeSnapshotRejected ==
    isLoading => SameLevels(orderBook, EmptyBook)

(***************************************************************************)
(* C8.  Each side of the book holds at most Depth levels.                  *)
(***************************************************************************)
C8_SidesWithinDepth ==
    Len(orderBook.bids) <= Depth /\ Len(orderBook.asks) <= Depth

(***************************************************************************)
(* C9.  The book a snapshot, or a delta that carries update id 1, leaves   *)
(* has no level of size zero.                                              *)
(***************************************************************************)
C9_SnapshotExcludesZeroSize ==
    \A m \in BookMessages :
        (m.type = "snapshot" \/ OwnU(m) = 1) =>
            NoZeroSize(BookAfter(m).bids) /\ NoZeroSize(BookAfter(m).asks)


(***************************************************************************)
(* C2.  The book is one a snapshot produced (a snapshot that lists each    *)
(* side best price first and within Depth, as in the spec's scenario) and  *)
(* a delta whose own update id is not 1 arrives: each side afterwards is   *)
(* the reference result, the snapshot's levels overridden by the delta's   *)
(* nonzero entries, without the prices the delta lists with size zero,     *)
(* sorted by numeric price and cut to the Depth levels nearest the best    *)
(* price.                                                                  *)
(***************************************************************************)
Merged(old, entries) ==
    { e \in LevelSet(entries) : ~IsZero(e[2]) }
        \cup { l \in LevelSet(old) : l[1] \notin PricesOf(entries) }

IsReference(side, old, entries, result) ==
    LET all == Merged(old, entries)
        kept == LevelSet(result)
    IN /\ kept \subseteq all
       /\ Cardinality(kept) = Len(result)
       /\ Len(result) = Min(Depth, Cardinality(all))
       /\ Sorted(side, result)
       /\ \A x \in all \ kept : \A y \in kept : ~Better(side, x, y)

OrderedWithinDepth(m) ==
    \A side \in Sides :
        Sorted(side, Listed(m, side)) /\ Len(Listed(m, side)) <= Depth

FromSnapshot(book) ==
    \E m \in Snapshots :
        OrderedWithinDepth(m) /\ SameLevels(book, SnapshotBook(m.data))

C2_DeltaMatchesReference ==
    FromSnapshot(orderBook) =>
        \A d \in Deltas : OwnU(d) # 1 =>
            \A side \in Sides :
                IsReference(side, orderBook[side], Listed(d, side), BookAfter(d)[side])

(***************************************************************************)
(* C3.  A delta whose own update id is not 1 carries the one entry         *)
(* [price, zero], for a price present on that side: afterwards the levels  *)
(* of that side are the former ones without that price, and the levels of  *)
(* the other side are the former ones.                                     *)
(***************************************************************************)
OneEntry(d, side, e) == Listed(d, side) = <<e>> /\ Listed(d, Other(side)) = <<>>

C3_ZeroEntryRemovesOnlyThatLevel ==
    \A d \in Deltas : OwnU(d) # 1 =>
        \A side \in Sides : \A e \in LevelSet(Listed(d, side)) :
            (OneEntry(d, side, e) /\ IsZero(e[2])
                /\ e[1] \in PricesOf(orderBook[side])) =>
                /\ LevelSet(BookAfter(d)[side]) =
                       { l \in LevelSet(orderBook[side]) : l[1] # e[1] }
                /\ LevelSet(BookAfter(d)[Other(side)]) =
                       LevelSet(orderBook[Other(side)])

(***************************************************************************)
(* C10.  A delta whose own update id is not 1 and whose list for a side is *)
(* empty or absent leaves that side as it was, levels and order.           *)
(***************************************************************************)
C10_EmptyListLeavesSide ==
    \A d \in Deltas : OwnU(d) # 1 =>
        \A side \in Sides :
            Listed(d, side) = <<>> => BookAfter(d)[side] = orderBook[side]


(***************************************************************************)
(* C4.  A delta carries the one entry [price, size], with a nonzero size,   *)
(* and is handled twice in a row.  As claimed: after the second time the   *)
(* side has the level [price, size], and the book is the one the first     *)
(* time left.                                                              *)
(***************************************************************************)
Twice(d) == Handled(d, BookAfter(d))

C4_ReplayLeavesLevel ==
    \A d \in Deltas : \A side \in Sides : \A e \in LevelSet(Listed(d, side)) :
        (OneEntry(d, side, e) /\ ~IsZero(e[2])) =>
            LET twice == Twice(d)
            IN e \in LevelSet(twice[side]) /\ SameLevels(twice, BookAfter(d))

(***************************************************************************)
(* C4, amended.  For every delta and every nonzero entry [price, size] of  *)
(* it: after the second time the side has no level at that price          *)
(* with another size (no sum, no older size), and it has the level         *)
(* [price, size] unless the depth trim cut it: the side then holds Depth   *)
(* levels, none of them farther from the best price than that price.  The  *)
(* book (bids, asks, updateId) is the one the first time left.             *)
(***************************************************************************)
CutByTrim(side, e, levels) ==
    /\ e[1] \notin PricesOf(levels)
    /\ Len(levels) = Depth
    /\ \A y \in LevelSet(levels) : ~Better(side, e, y)

C4_ReplayIdempotent ==
    \A d \in Deltas :
        LET once == BookAfter(d)
            twice == Handled(d, once)
        IN /\ SameLevels(twice, once)
           /\ \A side \in Sides : \A e \in LevelSet(Listed(d, side)) :
                 ~IsZero(e[2]) =>
                    /\ \A l \in LevelSet(twice[side]) : l[1] = e[1] => l[2] = e[2]
                    /\ e \in LevelSet(twice[side]) \/ CutByTrim(side, e, twice[side])

\* a book that already has the price with another size, and a delta that
\* overwrites it: handled twice, the level has the delta's size
C4_Witness ==
    \E d \in Deltas : \E e \in LevelSet(Listed(d, "bids")) :
        /\ OwnU(d) > 1 /\ ~IsZero(e[2])
        /\ \E l \in LevelSet(orderBook.bids) : l[1] = e[1] /\ l[2] # e[2]
        /\ LET twice == Twice(d)
           IN e \in LevelSet(twice.bids) /\ Len(twice.bids) > 1

(***************************************************************************)
(* C5.  A snapshot with update id 1, handled in whatever state the book is *)
(* in, leaves a book whose levels are all levels the snapshot lists on     *)
(* that side, and whose update id is 1.                                    *)
(***************************************************************************)
C5_RestartSnapshotDiscards ==
    \A m \in Snapshots : OwnU(m) = 1 =>
        /\ \A side \in Sides :
              LevelSet(BookAfter(m)[side]) \subseteq LevelSet(Listed(m, side))
        /\ BookAfter(m).updateId = 1

\* mid-stream: a synced book with a later update id and levels the
\* snapshot does not list, which are gone afterwards
C5_Witness ==
    /\ ~isLoading /\ orderBook.updateId > 1
    /\ \E m \in Snapshots :
          /\ OwnU(m) = 1
          /\ \E l \in LevelSet(orderBook.bids) :
                l \notin LevelSet(Listed(m, "bids"))
                    /\ l \notin LevelSet(BookAfter(m).bids)
          /\ BookAfter(m).bids # <<>>

(***************************************************************************)
(* C6.  A delta that carries update id 1 leaves the book applySnapshot     *)
(* would produce from the same data, and every level of it is one the      *)
(* delta lists on that side.                                               *)
(***************************************************************************)
C6_RestartDeltaIsSnapshot ==
    \A d \in Deltas : OwnU(d) = 1 =>
        /\ BookAfter(d) = SnapshotBook(d.data)
        /\ \A side \in Sides :
              LevelSet(BookAfter(d)[side]) \subseteq LevelSet(Listed(d, side))

\* a synced book whose levels the restart delta does not list: they are gone
C6_Witness ==
    /\ ~isLoading /\ orderBook.updateId > 1
    /\ \E d \in Deltas :
          /\ OwnU(d) = 1
          /\ \E l \in LevelSet(orderBook.asks) :
                l \notin LevelSet(Listed(d, "asks"))
                    /\ l \notin LevelSet(BookAfter(d).asks)
          /\ BookAfter(d).asks = Listed(d, "asks") /\ Listed(d, "asks") # <<>>

(***************************************************************************)
(* C11.  After a delta is applied, the book's updateId, sequence and       *)
(* timestamp are the u, seq and ts the delta carries (u and seq in its     *)
(* data, ts in the message or in its data), also when u is 0.              *)
(***************************************************************************)
CarriedTs(m) ==
    IF Has(m.data, "ts") THEN m.data.ts ELSE IF Has(m, "ts") THEN m.ts ELSE Null

C11_DeltaStampsBook ==
    \A d \in Deltas :
        LET after == BookAfter(d)
        IN /\ Has(d.data, "u") => after.updateId = d.data.u
           /\ Has(d.data, "seq") =>
                 Has(after, "sequence") /\ after.sequence = d.data.seq
           /\ CarriedTs(d) # Null => after.timestamp = CarriedTs(d)

(***************************************************************************)
(* Vocabulary of the proxy's properties.                                   *)
(***************************************************************************)
\* the (symbol, depth) pairs clients ask for
Pairs == Symbols \X {Depth, DefaultDepth}

\* their keys
AllKeys == { Key(x[1], x[2]) : x \in Pairs }

\* the channels listed by the messages with this op among those sent
SentChannels(sent, op) ==
    UNION { Range(sent[i].args) : i \in { j \in 1..Len(sent) : sent[j].op = op } }

\* the channels orderbook.<depth>.<symbol> of the keys in a set
ChannelsOf(keys) ==
    { Topic(sd[2], sd[1]) : sd \in { x \in Pairs : Key(x[1], x[2]) \in keys } }

(***************************************************************************)
(* C12.  In the step in which the upstream connection opens, the proxy     *)
(* sends subscribe for exactly the channels orderbook.<depth>.<symbol> of  *)
(* the keys that were active before.                                       *)
(***************************************************************************)
C12_OpenResubscribesActiveKeys ==
    [][(bybitWs = "connecting" /\ bybitWs' = "open") =>
          SentChannels(upstreamSent', "subscribe") = ChannelsOf(subscribedSymbols)]_vars

(***************************************************************************)
(* C13.  As claimed: whenever the proxy sends a subscribe upstream, no     *)
(* key of a listed channel was active before, the connection does not hold *)
(* any listed channel already, and no channel is listed twice.             *)
(***************************************************************************)
ListedOnce(sent) ==
    \A k \in 1..Len(sent) : \A i, j \in 1..Len(sent[k].args) :
        i # j => sent[k].args[i] # sent[k].args[j]

C13_NoChannelSubscribedTwice ==
    [][LET chs == SentChannels(upstreamSent', "subscribe")
       IN /\ chs \cap ChannelsOf(subscribedSymbols) = {}
          /\ chs \cap bybitSubs = {}
          /\ ListedOnce(upstreamSent')]_vars

(***************************************************************************)
(* C13, amended.  Whenever the proxy sends a subscribe upstream, no key of *)
(* a listed channel was active before and the connection does not hold any *)
(* listed channel already; the keys of the listed channels are active      *)
(* afterwards.  (A request that names a symbol twice has its channel       *)
(* listed twice in the one subscribe.)                                     *)
(***************************************************************************)
C13_SubscribesOnlyInactiveKeys ==
    [][LET chs == SentChannels(upstreamSent', "subscribe")
       IN /\ chs \cap ChannelsOf(subscribedSymbols) = {}
          /\ chs \cap bybitSubs = {}
          /\ chs \cap ChannelsOf(AllKeys) \subseteq ChannelsOf(subscribedSymbols')]_vars

\* a request for two symbols, one of them active already: the subscribe
\* sent lists the other one only
C13_Witness ==
    /\ bybitWs = "open"
    /\ \E i \in 1..Len(clientSent) :
          /\ clientSent[i].type = "subscribed"
          /\ Len(clientSent[i].symbols) = 2
          /\ clientSent[i].symbols[1] # clientSent[i].symbols[2]
          /\ { Key(sym, clientSent[i].depth) : sym \in Range(clientSent[i].symbols) }
                 \subseteq subscribedSymbols
    /\ Len(upstreamSent) = 1
    /\ upstreamSent[1].op = "subscribe"
    /\ Len(upstreamSent[1].args) = 1

(***************************************************************************)
(* C14.  Whenever the proxy sends an unsubscribe upstream, every listed    *)
(* channel is that of a key active before, and exactly the keys of the     *)
(* listed channels leave the active set; the set loses keys in no other    *)
(* step; an unsubscribe request that names only inactive keys sends        *)
(* nothing and leaves the set as it was.                                   *)
(***************************************************************************)
C14_UnsubscribesOnlyActiveKeys ==
    [][LET chs == SentChannels(upstreamSent', "unsubscribe")
       IN /\ chs \subseteq ChannelsOf(subscribedSymbols)
          /\ subscribedSymbols \ subscribedSymbols' =
                 { k \in subscribedSymbols : ChannelsOf({k}) # {} /\ ChannelsOf({k}) \subseteq chs }
          /\ (upstreamSent' # <<>> \/ subscribedSymbols' # subscribedSymbols) =>
                 \A data \in ClientRequests : \A from \in {"observed", "other"} :
                     ~(/\ Has(data, "action") /\ data.action = "unsubscribe"
                       /\ \A sym \in Range(data.symbols) :
                             Key(sym, NumOr(data, "depth", DefaultDepth))
                                 \notin subscribedSymbols
                       /\ HandleClientMessage(from, data))]_vars

\* an unsubscribe was sent for one channel while another key stays active
C14_Witness ==
    /\ Len(upstreamSent) = 1
    /\ upstreamSent[1].op = "unsubscribe"
    /\ Len(upstreamSent[1].args) = 1
    /\ ChannelsOf(subscribedSymbols) # {}
    /\ upstreamSent[1].args[1] \notin ChannelsOf(subscribedSymbols)

(***************************************************************************)
(* C15.  While the upstream connection is closed a reconnect timer is      *)
(* pending, and a new connection attempt follows; the close leaves the     *)
(* active subscription set as it was, and no step changes the set until    *)
(* the new connection opens, when every key active before is still active. *)
(***************************************************************************)
C15_CloseLeadsToReconnect ==
    /\ [](bybitWs = "closed" => reconnectTimeout = "pending")
    /\ (bybitWs = "closed") ~> (bybitWs = "connecting")
    /\ [][bybitWs # "open" \/ bybitWs' = "closed" =>
             /\ subscribedSymbols \subseteq subscribedSymbols'
             /\ bybitWs' # "open" => subscribedSymbols' = subscribedSymbols]_vars

\* the connection closed with keys active and a new one has opened
C15_Witness ==
    /\ closes > 0
    /\ bybitWs = "open"
    /\ AllKeys \cap subscribedSymbols # {}

(***************************************************************************)
(* C16.  After an 'error' event on the upstream socket (the socket is      *)
(* CLOSING) a reconnect timer becomes pending or a connection attempt is   *)
(* under way.                                                              *)
(***************************************************************************)
C16_ErrorLeadsToReconnect ==
    (bybitWs = "closing") ~> (reconnectTimeout = "pending" \/ bybitWs = "connecting")

\* an open connection with its heartbeat running emitted 'error'
C16_Witness ==
    bybitWs = "closing" /\ heartbeatInterval /\ subscribedSymbols # {}

(***************************************************************************)
(* C17.  The snapshot cache holds, for every key, the latest snapshot the  *)
(* exchange sent on the channel of that key, and nothing for a key whose   *)
(* channel carried no snapshot: no delta, unsubscribe, client disconnect   *)
(* or upstream reconnect changes an entry.                                 *)
(***************************************************************************)
C17_CacheHoldsLatestSnapshot ==
    snapshotCache = lastSnapshot

\* after a reconnect, with the key unsubscribed, the client gone and deltas
\* received since, the entry of the hook's key is still there
C17_Witness ==
    /\ closes > 0
    /\ ~clientOpen
    /\ Key(symbol, Depth) \in DOMAIN snapshotCache
    /\ Key(symbol, Depth) \notin subscribedSymbols
    /\ ~SameLevels(fullBook, SnapshotBook(snapshotCache[Key(symbol, Depth)].data))

(***************************************************************************)
(* C18.  When the proxy acknowledges a subscribe of the observed client,   *)
(* what the handler sent to that client is: the cached snapshot of every   *)
(* requested symbol that has one, in the order requested, and then the     *)
(* acknowledgment. (What is broadcast later is sent later on the socket.)  *)
(***************************************************************************)
C18_CachedSnapshotBeforeAck ==
    \A i \in 1..Len(clientSent) :
        (~Has(clientSent[i], "topic") /\ clientSent[i].type = "subscribed") =>
            LET ack == clientSent[i]
                cached == SelectSeq(ack.symbols,
                              LAMBDA sym : Key(sym, ack.depth) \in DOMAIN snapshotCache)
            IN /\ i = Len(clientSent)
               /\ Len(cached) = i - 1
               /\ \A j \in 1..(i - 1) :
                     clientSent[j] = snapshotCache[Key(cached[j], ack.depth)]

\* a cached snapshot and then the acknowledgment were sent
C18_Witness ==
    /\ Len(clientSent) = 2
    /\ Key(symbol, Depth) \in DOMAIN snapshotCache
    /\ clientSent[1] = snapshotCache[Key(symbol, Depth)]
    /\ Has(clientSent[2], "type") /\ clientSent[2].type = "subscribed"

(***************************************************************************)
(* C19.  Once the page of the observed client has applied a snapshot (a    *)
(* cached one or a live one) and has received every message broadcast      *)
(* since, its book is the book of a hook that was handed every message     *)
(* the exchange sent.                                                      *)
(***************************************************************************)
C19_CachedSnapshotIsCurrent ==
    synced => SameLevels(orderBook, fullBook)

(***************************************************************************)
(* C20.  While the upstream connection is open, every key that was         *)
(* acknowledged to a client (and not unsubscribed since) is in the active  *)
(* subscription set.                                                       *)
(***************************************************************************)
C20_AckedKeysAreActive ==
    bybitWs = "open" => acked \subseteq subscribedSymbols

(***************************************************************************)
(* Several downstream clients.                                             *)
(***************************************************************************)
\* what the last handler sent to a client
SentTo(c) == IF c = "observed" THEN clientSent ELSE otherSent

(***************************************************************************)
(* C21. When the send to one client fails during a broadcast, every other  *)
(* connected client is still sent the message, and the subscription set    *)
(* and the cache are what they are without the failure: the set is         *)
(* unchanged and the cache holds the latest snapshot of every key.         *)
(***************************************************************************)
C21_FailedSendSkipsOnlyThatClient ==
    [][lastBroadcast'.made =>
          /\ \A c \in Range(clients) \ {lastBroadcast'.client} :
                 SentTo(c)' # <<>>
          /\ subscribedSymbols' = subscribedSymbols
          /\ snapshotCache' = lastSnapshot']_vars

(***************************************************************************)
(* C22. A message that cannot be parsed, on the upstream connection, on a  *)
(* downstream connection of the proxy, or at the page of a client, is      *)
(* dropped: the connections stay as they are, and the subscription set,    *)
(* the snapshot cache and the order book of the page do not change.        *)
(***************************************************************************)
C22_MalformedMessageDropped ==
    [][dropped' # "none" =>
          /\ bybitWs' = bybitWs
          /\ clients' = clients
          /\ clientOpen' = clientOpen
          /\ subscribedSymbols' = subscribedSymbols
          /\ snapshotCache' = snapshotCache
          /\ orderBook' = orderBook]_vars

\* a message is dropped on the upstream connection while a key is subscribed,
\* a snapshot is cached and the page holds a book
C22_Witness ==
    /\ dropped = "upstream"
    /\ bybitWs = "open"
    /\ subscribedSymbols # {}
    /\ snapshotCache # << >>
    /\ orderBook.bids # <<>>
    /\ Len(clients) = 2

(***************************************************************************)
(* C23. When a downstream connection closes, that client leaves the set of *)
(* clients and the others stay; the subscription set and the snapshot      *)
(* cache are unchanged and nothing is sent upstream. A later broadcast     *)
(* whose sends all succeed reaches exactly the clients still connected.    *)
(***************************************************************************)
C23_CloseOnlyLeavesBroadcastSet ==
    /\ [](clientOpen <=> "observed" \in Range(clients))
    /\ [][Len(clients') < Len(clients) =>
             /\ \E c \in Range(clients) :
                    clients' = SelectSeq(clients, LAMBDA d : d # c)
             /\ subscribedSymbols' = subscribedSymbols
             /\ snapshotCache' = snapshotCache
             /\ bybitSubs' = bybitSubs
             /\ upstreamSent' = <<>>]_vars
    /\ [][lastBroadcast'.made /\ lastBroadcast'.client = "none" =>
             \A c \in Clients :
                 SentTo(c)' # <<>> <=> c \in Range(clients)]_vars

\* the observed client has closed while it held a subscription, and a
\* broadcast is made to the client that remains
C23_Witness ==
    /\ ~clientOpen
    /\ clients = <<"other">>
    /\ lastBroadcast.made
    /\ lastBroadcast.client = "none"
    /\ otherSent # <<>>
    /\ clientSent = <<>>
    /\ Key(symbol, Depth) \in subscribedSymbols
    /\ holders = {}

(***************************************************************************)
(* C30. A key of the active upstream set stays in it as long as some       *)
(* client that subscribed it has neither unsubscribed nor disconnected: an *)
(* unsubscribe of another client does not end the upstream subscription.   *)
(***************************************************************************)
C30_HeldKeyStaysActive ==
    [][Key(symbol, Depth) \in subscribedSymbols /\ holders' # {} =>
          Key(symbol, Depth) \in subscribedSymbols']_vars

(***************************************************************************)
(* C28. At most one upstream socket is CONNECTING or OPEN. A new socket is *)
(* created only at startup, when there is none, and when the reconnect     *)
(* timer fires, when the previous one is CLOSED; the socket the proxy      *)
(* holds is then the only one that can be CONNECTING or OPEN.              *)
(***************************************************************************)
C28_SingleUpstreamSocket ==
    /\ [](sockets <= 1)
    /\ [](sockets = 1 <=> Live(bybitWs))
    /\ [][bybitWs' = "connecting" /\ bybitWs # "connecting" =>
             \/ bybitWs = "null" /\ reconnectTimeout = "null"
             \/ /\ bybitWs = "closed"
                /\ reconnectTimeout = "pending"
                /\ reconnectTimeout' = "fired"]_vars

\* a second socket has been created by the timer and is open, after the
\* first one closed
C28_Witness ==
    /\ closes > 0
    /\ reconnectTimeout = "fired"
    /\ bybitWs = "open"
    /\ sockets = 1

(***************************************************************************)
(* C29. The book of the hook's (symbol, depth) is changed only by the      *)
(* messages of its own channel: no message whose topic is not exactly      *)
(* orderbook.<depth>.<symbol> changes the book, whatever book the hook     *)
(* holds.                                                                  *)
(***************************************************************************)
C29_ForeignTopicLeavesBook ==
    \A m \in ForeignMessages :
        /\ m.topic # Topic(Depth, symbol)
        /\ Handled(m, orderBook) = orderBook

(***************************************************************************)
(* groupLevels(levels, tickSize, sortDirection, maxLevels) of the grouping *)
(* utilities.  Numbers are counted in tenths, as ParseFloat gives them;    *)
(* the modelled tick sizes are 1 and 10, for which the divisions and       *)
(* products of the code are exact.                                         *)
(***************************************************************************)
TickSizes == {10, 100}

DigitChar == <<"0", "1", "2", "3", "4", "5", "6", "7", "8", "9">>

\* the decimal digits of a natural number
RECURSIVE Digits(_)
Digits(n) ==
    IF n < 10 THEN <<DigitChar[n + 1]>>
    ELSE Digits(n \div 10) \o <<DigitChar[(n % 10) + 1]>>

\* function getDecimals(tickSize), for tick sizes from 0.1 up
GetDecimals(tickSize) == IF tickSize >= 10 THEN 0 ELSE 1

\* Number.prototype.toFixed(decimals) of x tenths
ToFixed(x, decimals) ==
    IF decimals = 0 THEN Digits((x + 5) \div 10)
    ELSE Digits(x \div 10) \o <<".", DigitChar[(x % 10) + 1]>>
             \o [i \in 1..(decimals - 1) |-> "0"]

\* buckets.get(bucketPrice) || 0
MapGetOr0(m, k) ==
    IF MapHas(m, k) THEN (CHOOSE e \in Range(m) : e[1] = k)[2] ELSE 0

\* Math.floor(priceNum / tickSize) * tickSize
BucketPrice(priceNum, tickSize) == (priceNum \div tickSize) * tickSize

\* levels.forEach: the size of each level is added to its bucket
RECURSIVE Buckets(_, _)
Buckets(levels, tickSize) ==
    IF levels = <<>> THEN <<>>
    ELSE LET init == Buckets(SubSeq(levels, 1, Len(levels) - 1), tickSize)
             e == levels[Len(levels)]
             bucketPrice == BucketPrice(ParseFloat(e[1]), tickSize)
         IN MapSet(init, bucketPrice, MapGetOr0(init, bucketPrice) + ParseFloat(e[2]))

\* the comparator of groupLevels, on the strings toFixed made
CompareGrouped(sortDirection, a, b) ==
    IF sortDirection = "desc" THEN ParseDecimal(b[1]) - ParseDecimal(a[1])
    ELSE ParseDecimal(a[1]) - ParseDecimal(b[1])

RECURSIVE InsertGrouped(_, _, _)
InsertGrouped(sortDirection, x, s) ==
    IF s = <<>> THEN <<x>>
    ELSE IF CompareGrouped(sortDirection, Head(s), x) > 0 THEN <<x>> \o s
    ELSE <<Head(s)>> \o InsertGrouped(sortDirection, x, Tail(s))

RECURSIVE SortGrouped(_, _)
SortGrouped(sortDirection, s) ==
    IF s = <<>> THEN <<>>
    ELSE InsertGrouped(sortDirection, s[Len(s)],
                       SortGrouped(sortDirection, SubSeq(s, 1, Len(s) - 1)))

GroupLevels(levels, tickSize, sortDirection, maxLevels) ==
    IF levels = <<>> THEN <<>>
    ELSE LET buckets == Buckets(levels, tickSize)
             grouped ==
                 SortGrouped(sortDirection,
                     [i \in 1..Len(buckets) |->
                         <<ToFixed(buckets[i][1], GetDecimals(tickSize)),
                           ToFixed(buckets[i][2], 3)>>])
         IN Slice(grouped, maxLevels)

\* groupOrderbook: bids are grouped 'desc', asks 'asc'
Direction(side) == IF side = "bids" THEN "desc" ELSE "asc"

(***************************************************************************)
(* C26. Trimming keeps the entries nearest the best price.  Where          *)
(* applyDelta trims a side (the delta is patched into the book and lists   *)
(* the side), the side afterwards holds Depth of the entries of the        *)
(* patched map, or all of them if they are fewer, sorted best price first, *)
(* and no entry left out has a better price than one that is kept.  The    *)
(* same holds of groupLevels with the buckets as entries and maxLevels as  *)
(* the limit: it returns the maxLevels highest bucket prices for 'desc',   *)
(* the lowest for 'asc', in strict order.                                  *)
(***************************************************************************)
\* the entries of a side's map after the delta's entries are applied
Patched(side, d) ==
    LevelSet(ApplyEntries(MapFromLevels(orderBook[side]), Listed(d, side)))

Trims(d, side) ==
    /\ Accepts(d)
    /\ DeltaUpdateId(d.data, orderBook) # 1
    /\ Listed(d, side) # <<>>

BucketPrices(levels, tickSize) ==
    { BucketPrice(ParseFloat(l[1]), tickSize) : l \in LevelSet(levels) }

Nearer(sortDirection, x, y) == IF sortDirection = "desc" THEN x > y ELSE x < y

C24_AttemptCounterCapped ==
    /\ [](connectAttemptRef \in 0..10)
    /\ [][wsRef # "null" /\ wsRef' = "null" =>
             connectAttemptRef' =
                 IF connectAttemptRef < 10 THEN connectAttemptRef + 1 ELSE 10]_vars
    /\ [][wsRef = "connecting" /\ wsRef' = "open" => connectAttemptRef' = 0]_vars

\* the counter has reached its cap after a socket had opened, which set it
\* to 0
C24_Witness ==
    /\ connectAttemptRef = 10
    /\ reconnectTimeoutRef = "pending"
    /\ lastArrival # Null

(***************************************************************************)
(* C25. The delay of the reconnect timer set at the n-th consecutive close *)
(* (n from 1, capped at 10) is the un-jittered delay min(1000 * 2^(n-1),   *)
(* 30000) ms with a jitter of at most a tenth down or up: it is never      *)
(* below 500 ms and never above 33000 ms, and the un-jittered delay does   *)
(* not decrease with n.                                                    *)
(***************************************************************************)
Unjittered(n) == IF n >= 6 THEN 30000 ELSE 1000 * 2^(n - 1)

Checks ==
    watchdogIntervalRef /\ watchdogIntervalRef' /\ nextCheck' > nextCheck

C27_WatchdogClosesStaleSocket ==
    /\ [][Checks /\ isConnectedRef /\ wsRef = "open"
             /\ now - lastArrival > 30000 => wsRef' = "closing"]_vars
    /\ [][wsRef = "open" /\ wsRef' = "closing" =>
             Checks /\ now - lastArrival > 30000]_vars
    /\ [][Checks => nextCheck' = nextCheck + 10000]_vars
    /\ (wsRef = "closing") ~> (wsRef = "connecting")

\* the watchdog has closed a socket that delivered a message after it
\* opened and then stayed silent
C27_Witness ==
    /\ wsRef = "closing"
    /\ isConnectedRef
    /\ lastArrival > TimeStep
    /\ now - lastArrival > 30000

(***************************************************************************)
(* C40. applyDelta takes the full-replacement branch only for a delta     *)
(* whose own update id is 1: a delta that carries no u, or u = 0, or any   *)
(* u other than 1, is patched onto the book, whatever the updateId of the  *)
(* book, 1 included.                                                       *)
(***************************************************************************)
C40_RestartOnlyOnOwnSentinel ==
    \A d \in Deltas : OwnU(d) # 1 =>
        BookAfter(d) = ApplyDeltaAlwaysPatch(d.data, orderBook, Depth)

(***************************************************************************)
(* C31. Every key of the active subscription set is the key                *)
(* <symbol>-<depth> of a symbol and a depth that clients ask for, and the  *)
(* step in which the upstream connection opens (no client sends anything   *)
(* in that step) does not make the set larger.                             *)
(***************************************************************************)
C31_ActiveSetOnlyRequestedKeys ==
    /\ [](subscribedSymbols \subseteq AllKeys)
    /\ [][bybitWs = "connecting" /\ bybitWs' = "open" =>
             Cardinality(subscribedSymbols') <= Cardinality(subscribedSymbols)]_vars

(***************************************************************************)
(* C39. While the book is paused no message changes it, and once a message *)
(* of its channel has been dropped no delta changes the book until a       *)
(* snapshot has been applied (or the symbol has changed and the book is    *)
(* reset).                                                                 *)
(***************************************************************************)
C39_NoDeltaOntoStaleBook ==
    \A m \in ListMessages :
        /\ paused => Handled(m, orderBook) = orderBook
        /\ skipped /\ m.type = "delta" => Handled(m, orderBook) = orderBook

(***************************************************************************)
(* C32. Once cleanup() has been called no reconnect timer is pending and   *)
(* no upstream socket is CONNECTING or OPEN, whatever events are delivered *)
(* afterwards, the 'close' of the socket that cleanup terminated included. *)
(***************************************************************************)
C32_CleanupEndsUpstream ==
    cleanedUp => timeouts = 0 /\ reconnectTimeout # "pending" /\ sockets = 0

(***************************************************************************)
(* C34. At most one heartbeat interval and at most one reconnect timeout   *)
(* exist, and they are the ones whose handles the proxy holds; a heartbeat *)
(* interval exists only between the 'open' and the 'close' event of the    *)
(* upstream socket, none while there is no socket, while the socket is     *)
(* CONNECTING or after its 'close'; a ping is sent only on a socket that   *)
(* is OPEN.                                                                *)
(***************************************************************************)
SendsPing == \E i \in 1..Len(upstreamSent') : upstreamSent'[i].op = "ping"

C34_ProxyTimersSingle ==
    /\ [](intervals <= 1 /\ timeouts <= 1)
    /\ [](intervals = 1 <=> heartbeatInterval)
    /\ [](timeouts = 1 <=> reconnectTimeout = "pending")
    /\ [](bybitWs \in {"null", "connecting", "closed"} => intervals = 0)
    /\ [][SendsPing => bybitWs = "open" /\ bybitWs' = "open"]_vars

\* a second socket is open with its heartbeat, after the first one closed
\* and the timer fired, and a ping has just been sent on it
C34_Witness ==
    /\ closes > 0
    /\ bybitWs = "open"
    /\ intervals = 1
    /\ reconnectTimeout = "fired"
    /\ upstreamSent = << [op |-> "ping"] >>

(***************************************************************************)
(* C33. Once the provider has unmounted no timer of onclose is pending and *)
(* no socket of the provider is CONNECTING or OPEN, whatever events are    *)
(* delivered afterwards, the close event of the socket that the cleanup    *)
(* closed included.                                                        *)
(***************************************************************************)
C33_UnmountEndsConnector ==
    unmounted => wsTimers = 0 /\ reconnectTimeoutRef # "pending" /\ wsSockets = 0

(***************************************************************************)
(* C35. The provider has at most one socket that is CONNECTING or OPEN,    *)
(* the one wsRef holds, and at most one pending timer of onclose, the one  *)
(* reconnectTimeoutRef holds; while a socket is CONNECTING or OPEN         *)
(* connect() returns at its first test, and a step creates a socket only   *)
(* when there was none.                                                    *)
(***************************************************************************)
C35_SingleClientSocket ==
    /\ [](wsSockets <= 1 /\ wsTimers <= 1)
    /\ [](wsSockets = 1 <=> Live(wsRef))
    /\ [](wsTimers = 1 <=> reconnectTimeoutRef = "pending")
    /\ [](wsSockets >= 1 => ConnectGuard(connectingRef, wsRef))
    /\ [][wsSockets' > wsSockets => wsSockets = 0 /\ wsRef = "null"]_vars

\* a second socket is open: it opened more than 30 s after the mount,
\* after the first one closed and the timer of its onclose called connect()
C35_Witness ==
    /\ wsRef = "open"
    /\ wsSockets = 1
    /\ reconnectTimeoutRef = "fired"
    /\ wsTimers = 0
    /\ lastArrival > STALE_THRESHOLD

(***************************************************************************)
(* C37. A subscribe issued while the socket is not OPEN is appended to the *)
(* queue and nothing is sent; a subscribe issued while the socket is OPEN  *)
(* is sent at once and the queue is left as it is.  In the step in which   *)
(* the socket opens, exactly the queued subscribes are sent, once each and *)
(* in the order queued, and the queue is empty afterwards.  No other step  *)
(* changes the queue, and no other step of the provider or of the book's   *)
(* effects sends a subscribe.                                              *)
(***************************************************************************)
Subscribes == effectSymbol = <<>> /\ effectSymbol' # <<>>

Opens == wsRef = "connecting" /\ wsRef' = "open"

SentSubscribes ==
    SelectSeq(wsSent', LAMBDA msg : msg.action = "subscribe")

C37_QueuedSubscribesFlushedOnce ==
    /\ [][Subscribes /\ wsRef # "open" =>
             /\ wsSent' = <<>>
             /\ pendingSubscribesRef' =
                   Append(pendingSubscribesRef,
                          SubscribeMessage(<<symbol>>, Depth))]_vars
    /\ [][Subscribes /\ wsRef = "open" =>
             /\ wsSent' = << SubscribeMessage(<<symbol>>, Depth) >>
             /\ pendingSubscribesRef' = pendingSubscribesRef]_vars
    /\ [][Opens => wsSent' = pendingSubscribesRef /\ pendingSubscribesRef' = <<>>]_vars
    /\ [][pendingSubscribesRef' # pendingSubscribesRef =>
             Opens \/ (Subscribes /\ wsRef # "open")]_vars
    /\ [][SentSubscribes # <<>> /\ providerVars' # providerVars =>
             Opens \/ (Subscribes /\ wsRef = "open")]_vars

\* the socket has just opened and the two queued subscribes, of different
\* symbols, have been sent in the order queued; the queue is empty
C37_Witness ==
    /\ wsRef = "open"
    /\ pendingSubscribesRef = <<>>
    /\ Len(wsSent) = 2
    /\ wsSent[1].action = "subscribe"
    /\ wsSent[2] = SubscribeMessage(<<symbol>>, Depth)
    /\ wsSent[1] # wsSent[2]

(***************************************************************************)
(* C38. In the step in which the socket opens, every subscribe that is     *)
(* sent from the queue is for a symbol the mounted book wants: its symbol, *)
(* or the symbol its subscribe effect subscribed and has not unsubscribed. *)
(* A subscribe of another symbol, for which the book issued unsubscribe    *)
(* before the open, is not sent.                                           *)
(***************************************************************************)
C38_FlushSendsOnlyWantedKeys ==
    [][Opens =>
          \A i \in 1..Len(wsSent') :
              \/ wsSent'[i] = SubscribeMessage(<<symbol>>, Depth)
              \/ wsSent'[i] = SubscribeMessage(<<effectSymbol>>, Depth)]_vars

\* the provider: every close sets the timer, and a new attempt follows
ProviderNeverGivesUp ==
    /\ [][wsRef # "null" /\ wsRef' = "null" => reconnectTimeoutRef' = "pending"]_vars
    /\ (mounted /\ wsRef = "null") ~> (wsRef = "connecting")

\* the hook: every close sets the timer, and a new attempt follows
UseWebSocketNeverGivesUp ==
    /\ [][useWsRef # "null" /\ useWsRef' = "null" => useWsTimeoutRef' = "pending"]_vars
    /\ (useWsMounted /\ useWsRef = "null") ~> (useWsRef = "connecting")

(***************************************************************************)
(* C36. Client reconnection never gives up, in WebSocketProvider and in    *)
(* useWebSocket: every close of the socket of a mounted connector sets the *)
(* reconnect timer, and a mounted connector without a socket eventually    *)
(* makes a new connection attempt, however many attempts have failed.      *)
(***************************************************************************)
C36_ClientReconnectNeverGivesUp ==
    /\ ProviderNeverGivesUp
    /\ UseWebSocketNeverGivesUp

====
